---- MODULE Spec2Model ----
(***************************************************************************)
(* The ASE (3ds Max ASCII export) parser of code/ASEParser.cpp as a state  *)
(* machine over a NUL-terminated character buffer.  One loop iteration of  *)
(* a block parser is split at the point where the dispatched handler       *)
(* returns: the "head" step matches a keyword at the cursor and runs its   *)
(* handler (calling a nested block parser pushes a frame), the "tail" step *)
(* is the brace / end-of-input / line-end bookkeeping that closes the      *)
(* iteration.                                                              *)
(***************************************************************************)
EXTENDS Integers, Sequences, FiniteSets, TLC

VARIABLES
    input,            \* the text buffer, a sequence of characters ending in NUL
    m_szFile,         \* Parser::m_szFile, as a 1-based index into input
    iLineNumber,      \* Parser::iLineNumber
    stack,            \* the call stack of block parsers, innermost last
    m_vMeshes,        \* Parser::m_vMeshes
    m_vMaterials,     \* Parser::m_vMaterials
    m_clrBackground,  \* Parser::m_clrBackground
    m_clrAmbient,     \* Parser::m_clrAmbient
    warnings,         \* what LogWarning handed to the logger, in order
    status,           \* "running", "done" (Parse returned), "fatal" (LogError threw), "crashed"
    error,            \* the message LogError threw, <<>> when none
    ub,               \* the kind of undefined behaviour the run went through, "" when none
    lastReturn        \* the last return of a nested block parser to its caller

vars == <<input, m_szFile, iLineNumber, stack, m_vMeshes, m_vMaterials,
          m_clrBackground, m_clrAmbient, warnings, status, error, ub, lastReturn>>

-----------------------------------------------------------------------------
(* Characters and the helpers of ParsingUtils / fast_atof.                 *)

NUL == "NUL"
NaN == "NaN"
\* 0xFFFFFFFF, the result of 0 - 1 on an unsigned int, lies beyond the integers of TLC;
\* the largest integer TLC has stands for it: like 0xFFFFFFFF it exceeds every array
\* length and every number a text of the model can spell
UINT_MAX == 2147483647
\* x - 1 on an unsigned int
UnsignedDec(x) == IF x = 0 THEN UINT_MAX ELSE x - 1
AI_MAX_NUMBER_OF_TEXTURECOORDS == 4

Digits == <<"0","1","2","3","4","5","6","7","8","9">>
IsDigit(c) == \E d \in 1..10 : Digits[d] = c
DigitVal(c) == (CHOOSE d \in 1..10 : Digits[d] = c) - 1

SpaceChars == {" ", "\t"}
LineEndChars == {"\r", "\n", NUL}
IsSpace(c) == c \in SpaceChars
IsLineEnd(c) == c \in LineEndChars
IsSpaceOrNewLine(c) == IsSpace(c) \/ IsLineEnd(c)

\* *(m_szFile + k): the character at index p of the buffer
C(p) == IF p \in 1..Len(input) THEN input[p] ELSE NUL

\* the first position from p on whose character is one of stops (the position after
\* the buffer if there is none): where a loop "while (*sz is not a stop) ++sz" ends
ScanTo(p, stops) ==
    IF \E q \in p..Len(input) : input[q] \in stops
    THEN CHOOSE q \in p..Len(input) :
            input[q] \in stops /\ \A r \in p..(q - 1) : input[r] \notin stops
    ELSE IF p > Len(input) THEN p ELSE Len(input) + 1

\* the first position from p on whose character is none of skips
ScanPast(p, skips) ==
    IF \E q \in p..Len(input) : input[q] \notin skips
    THEN CHOOSE q \in p..Len(input) :
            input[q] \notin skips /\ \A r \in p..(q - 1) : input[r] \in skips
    ELSE IF p > Len(input) THEN p ELSE Len(input) + 1

RECURSIVE SkipSpacesPos(_)
SkipSpacesPos(p) == IF IsSpace(C(p)) THEN SkipSpacesPos(p + 1) ELSE p
\* SkipSpaces(in, &out): the new cursor and the returned flag
SkipSpaces(p) == [p |-> SkipSpacesPos(p), ok |-> ~IsLineEnd(C(SkipSpacesPos(p)))]

SkipSpacesAndLineEnd(p) == ScanPast(p, SpaceChars \cup {"\r", "\n"})

RECURSIVE strtol10Acc(_, _)
strtol10Acc(p, acc) ==
    IF IsDigit(C(p)) THEN strtol10Acc(p + 1, acc * 10 + DigitVal(C(p)))
    ELSE [p |-> p, v |-> acc]
\* strtol10(in, &out): a run of decimal digits; no digit yields 0 and an unmoved cursor
strtol10(p) == strtol10Acc(p, 0)
\* fast_atof_move(in, out): the values of the model are whole numbers
fast_atof_move(p) == strtol10Acc(p, 0)

\* the string literals of the source, as character sequences
Lit ==
       ("*3DSMAX_ASCIIEXPORT" :> <<"*","3","D","S","M","A","X","_","A","S","C","I","I","E","X","P","O","R","T">>)
    @@ ("*BITMAP" :> <<"*","B","I","T","M","A","P">>)
    @@ ("*GEOMOBJECT" :> <<"*","G","E","O","M","O","B","J","E","C","T">>)
    @@ ("*MAP_AMBIENT" :> <<"*","M","A","P","_","A","M","B","I","E","N","T">>)
    @@ ("*MAP_AMOUNT" :> <<"*","M","A","P","_","A","M","O","U","N","T">>)
    @@ ("*MAP_BUMP" :> <<"*","M","A","P","_","B","U","M","P">>)
    @@ ("*MAP_DIFFUSE" :> <<"*","M","A","P","_","D","I","F","F","U","S","E">>)
    @@ ("*MAP_OPACITY" :> <<"*","M","A","P","_","O","P","A","C","I","T","Y">>)
    @@ ("*MAP_SELFILLUM" :> <<"*","M","A","P","_","S","E","L","F","I","L","L","U","M">>)
    @@ ("*MAP_SHINE" :> <<"*","M","A","P","_","S","H","I","N","E">>)
    @@ ("*MAP_SPECULAR" :> <<"*","M","A","P","_","S","P","E","C","U","L","A","R">>)
    @@ ("*MATERIAL" :> <<"*","M","A","T","E","R","I","A","L">>)
    @@ ("*MATERIAL_AMBIENT" :> <<"*","M","A","T","E","R","I","A","L","_","A","M","B","I","E","N","T">>)
    @@ ("*MATERIAL_COUNT" :> <<"*","M","A","T","E","R","I","A","L","_","C","O","U","N","T">>)
    @@ ("*MATERIAL_DIFFUSE" :> <<"*","M","A","T","E","R","I","A","L","_","D","I","F","F","U","S","E">>)
    @@ ("*MATERIAL_LIST" :> <<"*","M","A","T","E","R","I","A","L","_","L","I","S","T">>)
    @@ ("*MATERIAL_NAME" :> <<"*","M","A","T","E","R","I","A","L","_","N","A","M","E">>)
    @@ ("*MATERIAL_REF" :> <<"*","M","A","T","E","R","I","A","L","_","R","E","F">>)
    @@ ("*MATERIAL_SELFILLUM" :> <<"*","M","A","T","E","R","I","A","L","_","S","E","L","F","I","L","L","U","M">>)
    @@ ("*MATERIAL_SHADING" :> <<"*","M","A","T","E","R","I","A","L","_","S","H","A","D","I","N","G">>)
    @@ ("*MATERIAL_SHINE" :> <<"*","M","A","T","E","R","I","A","L","_","S","H","I","N","E">>)
    @@ ("*MATERIAL_SPECULAR" :> <<"*","M","A","T","E","R","I","A","L","_","S","P","E","C","U","L","A","R">>)
    @@ ("*MATERIAL_TRANSPARENCY" :> <<"*","M","A","T","E","R","I","A","L","_","T","R","A","N","S","P","A","R","E","N","C","Y">>)
    @@ ("*MESH" :> <<"*","M","E","S","H">>)
    @@ ("*MESH_CFACE" :> <<"*","M","E","S","H","_","C","F","A","C","E">>)
    @@ ("*MESH_CFACELIST" :> <<"*","M","E","S","H","_","C","F","A","C","E","L","I","S","T">>)
    @@ ("*MESH_CVERTLIST" :> <<"*","M","E","S","H","_","C","V","E","R","T","L","I","S","T">>)
    @@ ("*MESH_FACE" :> <<"*","M","E","S","H","_","F","A","C","E">>)
    @@ ("*MESH_FACE_LIST" :> <<"*","M","E","S","H","_","F","A","C","E","_","L","I","S","T">>)
    @@ ("*MESH_MAPPINGCHANNEL" :> <<"*","M","E","S","H","_","M","A","P","P","I","N","G","C","H","A","N","N","E","L">>)
    @@ ("*MESH_MTLID" :> <<"*","M","E","S","H","_","M","T","L","I","D">>)
    @@ ("*MESH_NUMCVERTEX" :> <<"*","M","E","S","H","_","N","U","M","C","V","E","R","T","E","X">>)
    @@ ("*MESH_NUMCVFACES" :> <<"*","M","E","S","H","_","N","U","M","C","V","F","A","C","E","S">>)
    @@ ("*MESH_NUMFACES" :> <<"*","M","E","S","H","_","N","U","M","F","A","C","E","S">>)
    @@ ("*MESH_NUMTVERTEX" :> <<"*","M","E","S","H","_","N","U","M","T","V","E","R","T","E","X">>)
    @@ ("*MESH_NUMTVFACES" :> <<"*","M","E","S","H","_","N","U","M","T","V","F","A","C","E","S">>)
    @@ ("*MESH_NUMVERTEX" :> <<"*","M","E","S","H","_","N","U","M","V","E","R","T","E","X">>)
    @@ ("*MESH_SMOOTHING" :> <<"*","M","E","S","H","_","S","M","O","O","T","H","I","N","G">>)
    @@ ("*MESH_TFACE" :> <<"*","M","E","S","H","_","T","F","A","C","E">>)
    @@ ("*MESH_TFACELIST" :> <<"*","M","E","S","H","_","T","F","A","C","E","L","I","S","T">>)
    @@ ("*MESH_TVERT" :> <<"*","M","E","S","H","_","T","V","E","R","T">>)
    @@ ("*MESH_TVERTLIST" :> <<"*","M","E","S","H","_","T","V","E","R","T","L","I","S","T">>)
    @@ ("*MESH_VERTCOL" :> <<"*","M","E","S","H","_","V","E","R","T","C","O","L">>)
    @@ ("*MESH_VERTEX" :> <<"*","M","E","S","H","_","V","E","R","T","E","X">>)
    @@ ("*MESH_VERTEXNORMAL" :> <<"*","M","E","S","H","_","V","E","R","T","E","X","N","O","R","M","A","L">>)
    @@ ("*MESH_VERTEX_LIST" :> <<"*","M","E","S","H","_","V","E","R","T","E","X","_","L","I","S","T">>)
    @@ ("*NODE_NAME" :> <<"*","N","O","D","E","_","N","A","M","E">>)
    @@ ("*NODE_TM" :> <<"*","N","O","D","E","_","T","M">>)
    @@ ("*NUMSUBMTLS" :> <<"*","N","U","M","S","U","B","M","T","L","S">>)
    @@ ("*SCENE" :> <<"*","S","C","E","N","E">>)
    @@ ("*SCENE_AMBIENT_STATIC" :> <<"*","S","C","E","N","E","_","A","M","B","I","E","N","T","_","S","T","A","T","I","C">>)
    @@ ("*SCENE_BACKGROUND_STATIC" :> <<"*","S","C","E","N","E","_","B","A","C","K","G","R","O","U","N","D","_","S","T","A","T","I","C">>)
    @@ ("*SUBMATERIAL" :> <<"*","S","U","B","M","A","T","E","R","I","A","L">>)
    @@ ("*TM_ROW0" :> <<"*","T","M","_","R","O","W","0">>)
    @@ ("*TM_ROW1" :> <<"*","T","M","_","R","O","W","1">>)
    @@ ("*TM_ROW2" :> <<"*","T","M","_","R","O","W","2">>)
    @@ ("*TM_ROW3" :> <<"*","T","M","_","R","O","W","3">>)
    @@ ("*UVW_ANGLE" :> <<"*","U","V","W","_","A","N","G","L","E">>)
    @@ ("*UVW_U_OFFSET" :> <<"*","U","V","W","_","U","_","O","F","F","S","E","T">>)
    @@ ("*UVW_U_TILING" :> <<"*","U","V","W","_","U","_","T","I","L","I","N","G">>)
    @@ ("*UVW_V_OFFSET" :> <<"*","U","V","W","_","V","_","O","F","F","S","E","T">>)
    @@ ("*UVW_V_TILING" :> <<"*","U","V","W","_","V","_","T","I","L","I","N","G">>)
    @@ ("Blinn" :> <<"B","l","i","n","n">>)
    @@ ("Flat" :> <<"F","l","a","t">>)
    @@ ("Phong" :> <<"P","h","o","n","g">>)
    @@ ("Wire" :> <<"W","i","r","e">>)

LitAt(l, i) == IF i < Len(Lit[l]) THEN Lit[l][i + 1] ELSE NUL
\* 0 == strncmp(sz, l, n) with sz at p: the first n characters agree, or all up to
\* and including the terminator of l do
StrncmpEq(p, l, n) ==
    \A i \in 0..(n - 1) : i <= Len(Lit[l]) => C(p + i) = LitAt(l, i)
\* a wrong variant of KeywordAt, for comparison: the character behind the literal
\* is not looked at
KeywordAtPrefix(p, l, n) == StrncmpEq(p, l, n)
\* the keyword test of every dispatch: the literal, then whitespace or a line end
KeywordAt(p, l, n) == StrncmpEq(p, l, n) /\ IsSpaceOrNewLine(C(p + n))

\* a logged message with the line it names (the texts are the source's, shortened)
W(ln, msg) == [line |-> ln, msg |-> msg]

-----------------------------------------------------------------------------
(* Cursor primitives.                                                      *)

SkipToNextToken(p) == IF p > Len(input) THEN p ELSE ScanTo(p, {"*", NUL})

SkipOpeningBracket(p, ln) ==
    LET s == SkipSpaces(p) IN
    IF ~s.ok THEN [p |-> s.p, warn |-> <<>>, ok |-> FALSE]
    ELSE IF C(s.p) # "{"
         THEN [p |-> s.p, warn |-> <<W(ln, "'{' expected")>>, ok |-> FALSE]
         ELSE [p |-> SkipToNextToken(s.p), warn |-> <<>>, ok |-> TRUE]

\* the characters of a kind between two positions
CountIn(a, b, chars) == Cardinality({q \in a..b : C(q) \in chars})

\* a wrong variant of SkipSection, for comparison: the first '}' ends the section,
\* nested braces are not counted
SkipSectionFirstBrace(p, ln) ==
    LET IsEol == {"\r", "\n"}
        last == Len(input)
        q == ScanTo(p, {"}"}) IN
    IF q > last
    THEN [p |-> last, line |-> ln + CountIn(p, last, IsEol),
          warn |-> <<W(ln + CountIn(p, last, IsEol), "Unexpected EOF, '}' expected")>>,
          ok |-> FALSE]
    ELSE [p |-> SkipToNextToken(q + 1), line |-> ln + CountIn(p, q, IsEol), warn |-> <<>>,
          ok |-> TRUE]

\* SkipSection(): iCnt starts at 1, goes up at '{' and down at '}', and the loop
\* returns at the '}' that takes it to 0, or at the sentinel; line ends are counted
SkipSection(p, ln) ==
    LET IsOpen == {"{"}
        IsClose == {"}"}
        IsEol == {"\r", "\n"}
        last == Len(input)
        ends == {q \in p..last :
                    C(q) = "}" /\ CountIn(p, q - 1, IsOpen) = CountIn(p, q - 1, IsClose)} IN
    IF p > last
    THEN [p |-> p, line |-> ln, warn |-> <<W(ln, "Unexpected EOF, '}' expected")>>,
          ok |-> FALSE]
    ELSE IF ends = {}
    THEN [p |-> last, line |-> ln + CountIn(p, last, IsEol),
          warn |-> <<W(ln + CountIn(p, last, IsEol), "Unexpected EOF, '}' expected")>>,
          ok |-> FALSE]
    ELSE LET q == CHOOSE e \in ends : \A o \in ends : e <= o IN
         [p |-> SkipToNextToken(q + 1), line |-> ln + CountIn(p, q, IsEol), warn |-> <<>>,
          ok |-> TRUE]

-----------------------------------------------------------------------------
(* Primitive value parsers.  Each returns the new cursor p, the new line   *)
(* counter, the warnings it logged and the value(s) it wrote.              *)

ParseLV4MeshLong(p, ln) ==
    LET s == SkipSpaces(p) IN
    IF ~s.ok
    THEN [p |-> s.p, line |-> ln + 1, warn |-> <<W(ln, "long: unexpected EOL [#1]")>>, v |-> 0]
    ELSE LET r == strtol10(s.p) IN
         [p |-> SkipToNextToken(r.p), line |-> ln, warn |-> <<>>, v |-> r.v]

ParseLV4MeshFloat(p, ln) ==
    LET s == SkipSpaces(p) IN
    IF ~s.ok
    THEN [p |-> s.p, line |-> ln + 1, warn |-> <<W(ln, "float: unexpected EOL [#1]")>>, v |-> 0]
    ELSE LET r == fast_atof_move(s.p) IN
         [p |-> SkipToNextToken(r.p), line |-> ln, warn |-> <<>>, v |-> r.v]

\* a wrong variant of ParseLV4MeshFloatTriple, for comparison: a line end before any
\* component sets all three to zero
ParseLV4MeshFloatTripleAllZero(p, ln) ==
    LET s1 == SkipSpaces(p) IN
    IF ~s1.ok
    THEN [p |-> s1.p, line |-> ln + 1, v |-> <<0, 0, 0>>,
          warn |-> <<W(ln, "float triple: unexpected EOL [#5]")>>]
    ELSE
    LET r1 == fast_atof_move(s1.p)
        s2 == SkipSpaces(r1.p) IN
    IF ~s2.ok
    THEN [p |-> s2.p, line |-> ln + 1, v |-> <<0, 0, 0>>,
          warn |-> <<W(ln, "float triple: unexpected EOL [#6]")>>]
    ELSE
    LET r2 == fast_atof_move(s2.p)
        s3 == SkipSpaces(r2.p) IN
    IF ~s3.ok
    THEN [p |-> s3.p, line |-> ln + 1, v |-> <<0, 0, 0>>,
          warn |-> <<W(ln, "float triple: unexpected EOL [#7]")>>]
    ELSE
    LET r3 == fast_atof_move(s3.p) IN
    [p |-> SkipToNextToken(r3.p), line |-> ln, v |-> <<r1.v, r2.v, r3.v>>, warn |-> <<>>]

ParseLV4MeshFloatTriple(p, ln) ==
    LET s1 == SkipSpaces(p) IN
    IF ~s1.ok
    THEN [p |-> s1.p, line |-> ln + 1, v |-> <<0, 0, 0>>,
          warn |-> <<W(ln, "float triple: unexpected EOL [#5]")>>]
    ELSE
    LET r1 == fast_atof_move(s1.p)
        s2 == SkipSpaces(r1.p) IN
    IF ~s2.ok
    THEN [p |-> s2.p, line |-> ln + 1, v |-> <<r1.v, 0, 0>>,
          warn |-> <<W(ln, "float triple: unexpected EOL [#6]")>>]
    ELSE
    LET r2 == fast_atof_move(s2.p)
        s3 == SkipSpaces(r2.p) IN
    IF ~s3.ok
    THEN [p |-> s3.p, line |-> ln + 1, v |-> <<r1.v, r2.v, 0>>,
          warn |-> <<W(ln, "float triple: unexpected EOL [#7]")>>]
    ELSE
    LET r3 == fast_atof_move(s3.p) IN
    [p |-> SkipToNextToken(r3.p), line |-> ln, v |-> <<r1.v, r2.v, r3.v>>, warn |-> <<>>]

ParseLV4MeshFloatTripleIdx(p, ln) ==
    LET s == SkipSpaces(p) IN
    IF ~s.ok
    THEN [p |-> s.p, line |-> ln + 1, v |-> <<0, 0, 0>>, idx |-> 0,
          warn |-> <<W(ln, "indexable float triple: unexpected EOL [#1]")>>]
    ELSE LET r == strtol10(s.p)
             t == ParseLV4MeshFloatTriple(r.p, ln) IN
         [p |-> t.p, line |-> t.line, v |-> t.v, idx |-> r.v, warn |-> t.warn]

ParseLV4MeshLongTriple(p, ln) ==
    LET s1 == SkipSpaces(p) IN
    IF ~s1.ok
    THEN [p |-> s1.p, line |-> ln + 1, v |-> <<0, 0, 0>>,
          warn |-> <<W(ln, "indexable long triple: unexpected EOL [#1]")>>]
    ELSE
    LET r1 == strtol10(s1.p)
        s2 == SkipSpaces(r1.p) IN
    IF ~s2.ok
    THEN [p |-> s2.p, line |-> ln + 1, v |-> <<r1.v, 0, 0>>,
          warn |-> <<W(ln, "indexable long triple: unexpected EOL [#2]")>>]
    ELSE
    LET r2 == strtol10(s2.p)
        s3 == SkipSpaces(r2.p) IN
    IF ~s3.ok
    THEN [p |-> s3.p, line |-> ln + 1, v |-> <<r1.v, r2.v, 0>>,
          warn |-> <<W(ln, "indexable long triple: unexpected EOL [#3]")>>]
    ELSE
    LET r3 == strtol10(s3.p) IN
    [p |-> SkipSpacesAndLineEnd(r3.p), line |-> ln, v |-> <<r1.v, r2.v, r3.v>>, warn |-> <<>>]

ParseLV4MeshLongTripleIdx(p, ln) ==
    LET s == SkipSpaces(p) IN
    IF ~s.ok
    THEN [p |-> s.p, line |-> ln + 1, v |-> <<0, 0, 0>>, idx |-> 0,
          warn |-> <<W(ln, "indexable long triple: unexpected EOL [#4]")>>]
    ELSE LET r == strtol10(s.p)
             t == ParseLV4MeshLongTriple(r.p, ln) IN
         [p |-> t.p, line |-> t.line, v |-> t.v, idx |-> r.v, warn |-> t.warn]

-----------------------------------------------------------------------------
(* The scene data model (ASEParser.h) with its default values.             *)

ChannelIds == 0 .. (AI_MAX_NUMBER_OF_TEXTURECOORDS - 1)
Vec0 == <<0, 0, 0>>

DefaultFace ==
    [iFace |-> 0, mIndices |-> Vec0, iSmoothGroup |-> {}, iMaterial |-> 0,
     amUVIndices |-> [c \in ChannelIds |-> Vec0], mColorIndices |-> Vec0]

DefaultMesh ==
    [mName |-> <<>>, mPositions |-> <<>>, mFaces |-> <<>>,
     amTexCoords |-> [c \in ChannelIds |-> <<>>],
     mNumUVComponents |-> [c \in ChannelIds |-> 2],
     mVertexColors |-> <<>>, mNormals |-> <<>>, iMaterialIndex |-> 0,
     mTransform |-> <<Vec0, Vec0, Vec0, Vec0>>]

DefaultTexture ==
    [mMapName |-> <<>>, mOffsetU |-> 0, mOffsetV |-> 0, mScaleU |-> 1, mScaleV |-> 1,
     mRotation |-> 0, mTextureBlend |-> 1]

DefaultMaterial ==
    [mName |-> <<>>, mAmbient |-> Vec0, mDiffuse |-> Vec0, mSpecular |-> Vec0,
     mEmissive |-> Vec0, mShading |-> "Gouraud", mTransparency |-> 1,
     mSpecularExponent |-> 0,
     sTexDiffuse |-> DefaultTexture, sTexAmbient |-> DefaultTexture,
     sTexSpecular |-> DefaultTexture, sTexOpacity |-> DefaultTexture,
     sTexEmissive |-> DefaultTexture, sTexBump |-> DefaultTexture,
     sTexShininess |-> DefaultTexture, avSubMaterials |-> <<>>]

\* std::vector::resize(n) with a default-constructed filler
Resize(v, n, dflt) == [i \in 1..n |-> IF i <= Len(v) THEN v[i] ELSE dflt]

-----------------------------------------------------------------------------
(* The face record micro-parser.                                           *)

\* a wrong variant of FaceLabel, for comparison: 'B' and 'C' lead to each other's slot
FaceLabelSwapped(c) ==
    IF c \in {"A", "a"} THEN 0
    ELSE IF c \in {"B", "b"} THEN 2
    ELSE IF c \in {"C", "c"} THEN 1
    ELSE -1

FaceLabel(c) ==
    IF c \in {"A", "a"} THEN 0
    ELSE IF c \in {"B", "b"} THEN 1
    ELSE IF c \in {"C", "c"} THEN 2
    ELSE -1

\* the for loop of ParseLV4MeshFace over the three labelled vertex references
RECURSIVE FaceIndices(_, _, _)
FaceIndices(p, i, idx) ==
    IF i = 3 THEN [p |-> p, fatal |-> "", idx |-> idx]
    ELSE
    LET s1 == SkipSpaces(p) IN
    IF ~s1.ok \/ FaceLabel(C(s1.p)) = -1
    THEN [p |-> s1.p, fatal |-> "*MESH_FACE: A,B or C expected [#3]", idx |-> idx]
    ELSE
    LET s2 == SkipSpaces(s1.p + 1) IN
    IF ~s2.ok \/ C(s2.p) # ":"
    THEN [p |-> s2.p, fatal |-> "*MESH_FACE: ':' expected [#2]", idx |-> idx]
    ELSE
    LET s3 == SkipSpaces(s2.p + 1) IN
    IF ~s3.ok
    THEN [p |-> s3.p, fatal |-> "*MESH_FACE: Vertex index expected [#4]", idx |-> idx]
    ELSE
    LET r == strtol10(s3.p) IN
    FaceIndices(r.p, i + 1, [idx EXCEPT ![FaceLabel(C(s1.p)) + 1] = r.v])

\* while (true) { if '*' break; if IsLineEnd { ++line; return; } ++m_szFile; }
SkipToStarOrLineEnd(p) ==
    LET q == ScanTo(p, {"*"} \cup LineEndChars) IN
    [p |-> q, eol |-> C(q) # "*"]

\* a wrong variant of Shl1, for comparison: 1 << (g - 1), groups counted from 1
ShlFromOne(g) == IF g \in 1..32 THEN {g - 1} ELSE {}

\* 1 << g as the set of the bits that are set in it (a 32-bit word is kept as the set
\* of its one bits: bit 31 lies beyond the integers of TLC)
Shl1(g) == IF g <= 31 THEN {g} ELSE {}
\* the comma-separated group list: iSmoothGroup |= (1 << strtol10(...))
RECURSIVE SmoothingGroups(_, _, _)
SmoothingGroups(p, mask, shiftUb) ==
    LET r == strtol10(p)
        m == mask \cup Shl1(r.v)
        u == shiftUb \/ r.v > 31
        s == SkipSpacesPos(r.p) IN
    IF C(s) # "," THEN [p |-> s, mask |-> m, shiftUb |-> u]
    ELSE SmoothingGroups(SkipSpacesPos(s + 1), m, u)

FaceResult(p, ln, fatal, u, f) == [p |-> p, line |-> ln, fatal |-> fatal, ub |-> u, face |-> f]

\* the tail of ParseLV4MeshFace from the second skip loop on (*MESH_MTLID)
MeshFaceMtlId(p, ln, f, u) ==
    LET k == SkipToStarOrLineEnd(p) IN
    IF k.eol THEN FaceResult(k.p, ln + 1, "", u, f)
    ELSE IF KeywordAt(k.p, "*MESH_MTLID", 11)
    THEN IF k.p + 12 > Len(input) THEN FaceResult(k.p + 12, ln, "", "read past the sentinel", f)
         ELSE
         LET s == SkipSpaces(k.p + 12) IN
         IF ~s.ok THEN FaceResult(s.p, ln, "*MESH_MTLID: Material index expected [#6]", u, f)
         ELSE LET r == strtol10(s.p) IN
              FaceResult(SkipToNextToken(r.p), ln, "", u, [f EXCEPT !.iMaterial = r.v])
    ELSE FaceResult(SkipToNextToken(k.p), ln, "", u, f)

\* ParseLV4MeshFace from the first skip loop on (*MESH_SMOOTHING)
MeshFaceSmoothing(p, ln, f) ==
    LET k == SkipToStarOrLineEnd(p) IN
    IF k.eol THEN FaceResult(k.p, ln + 1, "", "", f)
    ELSE IF KeywordAt(k.p, "*MESH_SMOOTHING", 15)
    THEN IF k.p + 16 > Len(input) THEN FaceResult(k.p + 16, ln, "", "read past the sentinel", f)
         ELSE
         LET s == SkipSpaces(k.p + 16) IN
         IF ~s.ok
         THEN FaceResult(s.p, ln, "*MESH_SMOOTHING: Smoothing group(s) expected [#5]", "", f)
         ELSE LET g == SmoothingGroups(s.p, f.iSmoothGroup, FALSE) IN
              MeshFaceMtlId(g.p, ln, [f EXCEPT !.iSmoothGroup = g.mask],
                            IF g.shiftUb THEN "shift count out of range" ELSE "")
    ELSE MeshFaceMtlId(k.p, ln, f, "")

ParseLV4MeshFace(p, ln) ==
    LET s1 == SkipSpaces(p) IN
    IF ~s1.ok THEN FaceResult(s1.p, ln, "*MESH_FACE: Unexpected EOL [#1]", "", DefaultFace)
    ELSE
    LET r1 == strtol10(s1.p)
        s2 == SkipSpaces(r1.p) IN
    IF ~s2.ok \/ C(s2.p) # ":"
    THEN FaceResult(s2.p, ln, "*MESH_FACE: ':' expected [#2]", "", DefaultFace)
    ELSE
    LET fi == FaceIndices(s2.p + 1, 0, DefaultFace.mIndices) IN
    IF fi.fatal # "" THEN FaceResult(fi.p, ln, fi.fatal, "", DefaultFace)
    ELSE MeshFaceSmoothing(fi.p, ln, [DefaultFace EXCEPT !.iFace = r1.v, !.mIndices = fi.idx])

-----------------------------------------------------------------------------
(* Frames, and the effect of one dispatched handler.                       *)

Top == stack[Len(stack)]
\* no nested block parser has returned yet
NoReturn == [fn |-> "", open |-> 0, close |-> 0]
Running == status = "running" /\ ub = "" /\ stack # <<>>

\* a call of a block parser: iDepth starts at 1; open is the position of the '{'
\* that opens the block (0 when the keyword is not followed by one)
Frame(fn, loc, tgt, open) ==
    [fn |-> fn, pc |-> "head", iDepth |-> 1, loc |-> loc, tgt |-> tgt, open |-> open]

BraceAfter(p) == IF C(SkipSpacesAndLineEnd(p)) = "{" THEN SkipSpacesAndLineEnd(p) ELSE 0

\* what a handler leaves behind: cursor, line counter, warnings, a fatal message,
\* undefined behaviour, the scene, the caller's locals and the frame it calls
E0(p) ==
    [p |-> p, line |-> iLineNumber, warn |-> <<>>, fatal |-> "", ub |-> "",
     meshes |-> m_vMeshes, materials |-> m_vMaterials,
     bg |-> m_clrBackground, amb |-> m_clrAmbient, loc |-> Top.loc, push |-> <<>>]

\* a value parser's result folded into an effect
EV(r) == [E0(r.p) EXCEPT !.line = r.line, !.warn = r.warn]

\* the first entry of a dispatch table (else-if chain) that matches at p, or 0
Match(p, table) ==
    IF \E k \in 1..Len(table) : KeywordAt(p, table[k].kw, table[k].n)
    THEN CHOOSE k \in 1..Len(table) :
            /\ KeywordAt(p, table[k].kw, table[k].n)
            /\ \A j \in 1..(k - 1) : ~KeywordAt(p, table[j].kw, table[j].n)
    ELSE 0

K(kw, n, h) == [kw |-> kw, n |-> n, h |-> h]

\* LogError: throw new ImportErrorException("Line <n>: <msg>")
LogError(e) ==
    /\ status' = "fatal"
    /\ error' = <<W(e.line, e.fatal)>>
    /\ stack' = <<>>
    /\ UNCHANGED lastReturn

\* commit a handler's effect; the iteration goes on with its tail
Apply(e) ==
    /\ m_szFile' = e.p
    /\ iLineNumber' = e.line
    /\ warnings' = warnings \o e.warn
    /\ m_vMeshes' = e.meshes
    /\ m_vMaterials' = e.materials
    /\ m_clrBackground' = e.bg
    /\ m_clrAmbient' = e.amb
    /\ UNCHANGED input
    /\ ub' = IF e.ub # "" THEN e.ub
             ELSE IF e.p > Len(input) THEN "read past the sentinel"
             ELSE ""
    /\ IF e.fatal # "" /\ ub' = ""
       THEN LogError(e)
       ELSE /\ stack' = [stack EXCEPT ![Len(stack)] = [@ EXCEPT !.pc = "tail", !.loc = e.loc]]
                        \o e.push
            /\ UNCHANGED <<status, error, lastReturn>>

\* the keyword of the table that the else-if chain matches at the cursor (0: none)
Matched(table) == IF C(m_szFile) = "*" THEN Match(m_szFile, table) ELSE 0
\* the branch of the matched keyword
Key(table) == table[Matched(table)].h
\* the cursor behind the matched keyword
Behind(table) == m_szFile + table[Matched(table)].n + 1

\* the head of an iteration of a block parser with an else-if dispatch chain; e is the
\* effect of the branch of the matched keyword
BlockHead(table, e) ==
    IF Matched(table) = 0 THEN Apply(E0(m_szFile))
    ELSE IF Behind(table) > Len(input) THEN Apply(E0(Behind(table)))
    ELSE Apply(e)

\* the rest of an iteration: braces, end of input, line ends, ++m_szFile
BlockTail(eofIsFatal, msg) ==
    LET c == C(m_szFile)
        f == Top
        pop == SubSeq(stack, 1, Len(stack) - 1) IN
    /\ UNCHANGED <<input, m_vMeshes, m_vMaterials, m_clrBackground, m_clrAmbient,
                   warnings, ub>>
    /\ IF c = "}" /\ f.iDepth - 1 = 0
       THEN /\ m_szFile' = SkipToNextToken(m_szFile + 1)
            /\ stack' = pop
            /\ status' = IF pop = <<>> THEN "done" ELSE status
            /\ lastReturn' = [fn |-> f.fn, open |-> f.open, close |-> m_szFile]
            /\ UNCHANGED <<iLineNumber, error>>
       ELSE IF c = NUL /\ ~eofIsFatal
       THEN /\ stack' = pop
            /\ status' = IF pop = <<>> THEN "done" ELSE status
            /\ lastReturn' = [fn |-> f.fn, open |-> f.open, close |-> 0]
            /\ UNCHANGED <<m_szFile, iLineNumber, error>>
       ELSE IF c = NUL
       THEN /\ status' = "fatal"
            /\ error' = <<W(iLineNumber, msg)>>
            /\ stack' = <<>>
            /\ UNCHANGED <<m_szFile, iLineNumber, lastReturn>>
       ELSE /\ m_szFile' = m_szFile + 1
            /\ iLineNumber' = IF IsLineEnd(c) THEN iLineNumber + 1 ELSE iLineNumber
            /\ stack' = [stack EXCEPT ![Len(stack)] =
                            [@ EXCEPT !.pc = "head",
                                      !.iDepth = IF c = "{" THEN @ + 1
                                                 ELSE IF c = "}" THEN @ - 1 ELSE @]]
            /\ UNCHANGED <<status, error, lastReturn>>

\* a quoted string at p (after SkipSpaces): "..." up to the closing quote
QuoteEnd(p) == ScanTo(p, {"\""})
\* a wrong variant of Chars, for comparison: the character at b is taken as well
CharsThrough(a, b) == [i \in 1..(b - a + 1) |-> C(a + i - 1)]
\* std::string(m_szFile, sz - m_szFile): the characters from a up to, not including, b
Chars(a, b) == [i \in 1..(b - a) |-> C(a + i - 1)]

-----------------------------------------------------------------------------
(* Top level, scene block, material list, material, texture map.           *)

ParseTable ==
    << K("*3DSMAX_ASCIIEXPORT", 19, "version"), K("*SCENE", 6, "scene"),
       K("*MATERIAL_LIST", 14, "materials"), K("*GEOMOBJECT", 11, "geomobject") >>

\* a wrong variant of ParseHandler, for comparison: a version other than 200 is fatal
ParseHandlerStrictVersion(h, p) ==
    IF h = "version"
    THEN LET r == ParseLV4MeshLong(p, iLineNumber) IN
         [EV(r) EXCEPT !.fatal = IF r.v # 200 THEN "Unknown file format version" ELSE ""]
    ELSE IF h = "scene"
    THEN [E0(p) EXCEPT !.push = <<Frame("ParseLV1SceneBlock", <<>>, <<>>, BraceAfter(p))>>]
    ELSE IF h = "materials"
    THEN [E0(p) EXCEPT !.push = <<Frame("ParseLV1MaterialListBlock",
                                        [iMaterialCount |-> 0], <<>>, BraceAfter(p))>>]
    ELSE [E0(p) EXCEPT !.meshes = Append(m_vMeshes, DefaultMesh),
                       !.push = <<Frame("ParseLV1GeometryObjectBlock", <<>>, <<>>,
                                        BraceAfter(p))>>]

ParseHandler(h, p) ==
    IF h = "version"
    THEN LET r == ParseLV4MeshLong(p, iLineNumber) IN
         [EV(r) EXCEPT !.warn = r.warn \o
             (IF r.v # 200 THEN <<W(r.line, "Unknown file format version")>> ELSE <<>>)]
    ELSE IF h = "scene"
    THEN [E0(p) EXCEPT !.push = <<Frame("ParseLV1SceneBlock", <<>>, <<>>, BraceAfter(p))>>]
    ELSE IF h = "materials"
    THEN [E0(p) EXCEPT !.push = <<Frame("ParseLV1MaterialListBlock",
                                        [iMaterialCount |-> 0], <<>>, BraceAfter(p))>>]
    ELSE [E0(p) EXCEPT !.meshes = Append(m_vMeshes, DefaultMesh),
                       !.push = <<Frame("ParseLV1GeometryObjectBlock", <<>>, <<>>,
                                        BraceAfter(p))>>]

SceneTable ==
    << K("*SCENE_BACKGROUND_STATIC", 24, "background"),
       K("*SCENE_AMBIENT_STATIC", 21, "ambient") >>

SceneHandler(h, p) ==
    LET r == ParseLV4MeshFloatTriple(p, iLineNumber) IN
    IF h = "background" THEN [EV(r) EXCEPT !.bg = r.v] ELSE [EV(r) EXCEPT !.amb = r.v]

MaterialListTable ==
    << K("*MATERIAL_COUNT", 15, "count"), K("*MATERIAL", 9, "material") >>

\* iIndex = iCount - 1 in unsigned arithmetic when iIndex >= iCount
ClampIndex(iIndex, iCount) ==
    IF iIndex >= iCount THEN UnsignedDec(iCount) ELSE iIndex

MaterialListHandler(h, p) ==
    LET r == ParseLV4MeshLong(p, iLineNumber) IN
    IF h = "count"
    THEN [EV(r) EXCEPT !.loc = [iMaterialCount |-> r.v],
                       !.materials = Resize(m_vMaterials, r.v, DefaultMaterial)]
    ELSE
    LET n == Top.loc.iMaterialCount
        iIndex == ClampIndex(r.v, n)
        w == IF r.v >= n THEN <<W(r.line, "material index is too large")>> ELSE <<>>
        b == SkipOpeningBracket(r.p, r.line) IN
    IF iIndex >= Len(m_vMaterials)
    THEN [EV(r) EXCEPT !.warn = r.warn \o w, !.ub = "m_vMaterials[iIndex] out of bounds"]
    ELSE [EV(r) EXCEPT !.p = b.p, !.warn = r.warn \o w \o b.warn,
                       !.push = <<Frame("ParseLV2MaterialBlock", [iNumSubMaterials |-> 0],
                                        <<iIndex>>,
                                        IF b.ok THEN SkipSpacesPos(r.p) ELSE 0)>>]

\* the material a path of 0-based indices names: m_vMaterials[i].avSubMaterials[j]...
RECURSIVE MatAt(_, _)
MatAt(mats, path) ==
    IF Len(path) = 1 THEN mats[path[1] + 1]
    ELSE MatAt(mats[path[1] + 1].avSubMaterials, Tail(path))
RECURSIVE MatSet(_, _, _)
MatSet(mats, path, m) ==
    IF Len(path) = 1 THEN [mats EXCEPT ![path[1] + 1] = m]
    ELSE [mats EXCEPT ![path[1] + 1] =
             [@ EXCEPT !.avSubMaterials = MatSet(@, Tail(path), m)]]

MaterialTable ==
    << K("*MATERIAL_NAME", 14, "name"), K("*MATERIAL_AMBIENT", 17, "mAmbient"),
       K("*MATERIAL_DIFFUSE", 17, "mDiffuse"), K("*MATERIAL_SPECULAR", 18, "mSpecular"),
       K("*MATERIAL_SHADING", 17, "shading"), K("*MATERIAL_TRANSPARENCY", 22, "transparency"),
       K("*MATERIAL_SELFILLUM", 19, "selfillum"), K("*MATERIAL_SHINE", 15, "shine"),
       K("*MAP_DIFFUSE", 12, "sTexDiffuse"), K("*MAP_AMBIENT", 12, "sTexAmbient"),
       K("*MAP_SPECULAR", 13, "sTexSpecular"), K("*MAP_OPACITY", 12, "sTexOpacity"),
       K("*MAP_SELFILLUM", 14, "sTexEmissive"), K("*MAP_BUMP", 9, "sTexBump"),
       K("*MAP_SHINE", 10, "sTexShininess"), K("*NUMSUBMTLS", 11, "numsubmtls"),
       K("*SUBMATERIAL", 12, "submaterial") >>

ShadingModes == << K("Blinn", 5, "Blinn"), K("Phong", 5, "Phong"),
                   K("Flat", 4, "Flat"), K("Wire", 4, "Wire") >>

\* while (!IsSpaceOrNewLine(*sz)) sz++;
TokenEnd(p) == ScanTo(p, SpaceChars \cup LineEndChars)

MaterialHandler(h, p) ==
    LET path == Top.tgt
        mat == MatAt(m_vMaterials, path)
        Put(e, m) == [e EXCEPT !.materials = MatSet(m_vMaterials, path, m)] IN
    IF h = "name"
    THEN LET s == SkipSpaces(p) IN
         IF ~s.ok THEN [E0(s.p) EXCEPT !.fatal = "*MATERIAL_NAME: Unexpected EOL"]
         ELSE Put(E0(TokenEnd(s.p)), [mat EXCEPT !.mName = Chars(s.p, TokenEnd(s.p))])
    ELSE IF h \in {"mAmbient", "mDiffuse", "mSpecular"}
    THEN LET r == ParseLV4MeshFloatTriple(p, iLineNumber) IN
         Put(EV(r), [mat EXCEPT ![h] = r.v])
    ELSE IF h = "shading"
    THEN LET k == Match(p, ShadingModes) IN
         IF k # 0 THEN Put(E0(p + ShadingModes[k].n + 1),
                           [mat EXCEPT !.mShading = ShadingModes[k].h])
         ELSE Put(E0(SkipToNextToken(p)), [mat EXCEPT !.mShading = "Gouraud"])
    ELSE IF h = "transparency"
    THEN LET r == ParseLV4MeshFloat(p, iLineNumber) IN
         Put(EV(r), [mat EXCEPT !.mTransparency = 1 - r.v])
    ELSE IF h = "selfillum"
    THEN LET r == ParseLV4MeshFloat(p, iLineNumber) IN
         Put(EV(r), [mat EXCEPT !.mEmissive = <<r.v, r.v, r.v>>])
    ELSE IF h = "shine"
    THEN LET r == ParseLV4MeshFloat(p, iLineNumber) IN
         Put(EV(r), [mat EXCEPT !.mSpecularExponent = r.v * 15])
    ELSE IF h = "numsubmtls"
    THEN LET r == ParseLV4MeshLong(p, iLineNumber) IN
         [Put(EV(r), [mat EXCEPT !.avSubMaterials = Resize(@, r.v, DefaultMaterial)])
             EXCEPT !.loc = [iNumSubMaterials |-> r.v]]
    ELSE IF h = "submaterial"
    THEN LET r == ParseLV4MeshLong(p, iLineNumber)
             n == Top.loc.iNumSubMaterials
             iIndex == ClampIndex(r.v, n)
             w == IF r.v >= n THEN <<W(r.line, "submaterial index is too large")>> ELSE <<>>
             b == SkipOpeningBracket(r.p, r.line) IN
         IF iIndex >= Len(mat.avSubMaterials)
         THEN [EV(r) EXCEPT !.warn = r.warn \o w,
                            !.ub = "avSubMaterials[iIndex] out of bounds"]
         ELSE [EV(r) EXCEPT !.p = b.p, !.warn = r.warn \o w \o b.warn,
                            !.push = <<Frame("ParseLV2MaterialBlock",
                                             [iNumSubMaterials |-> 0], path \o <<iIndex>>,
                                             IF b.ok THEN SkipSpacesPos(r.p) ELSE 0)>>]
    ELSE \* one of the seven *MAP_ keywords
    LET b == SkipOpeningBracket(p, iLineNumber) IN
    [E0(b.p) EXCEPT !.warn = b.warn,
                    !.push = <<Frame("ParseLV3MapBlock", <<>>, [path |-> path, slot |-> h],
                                     IF b.ok THEN SkipSpacesPos(p) ELSE 0)>>]

\* the quoted string of *BITMAP and *NODE_NAME: [p, fatal, ub, s]
QuotedString(p, what) ==
    LET s == SkipSpaces(p) IN
    IF ~s.ok THEN [p |-> s.p, fatal |-> what \o ": Unexpected EOL", ub |-> "", s |-> <<>>]
    ELSE IF C(s.p) # "\""
    THEN [p |-> s.p, fatal |-> what \o ": double quotation marks expected", ub |-> "",
          s |-> <<>>]
    ELSE LET q == QuoteEnd(s.p + 1) IN
         IF q > Len(input)
         THEN [p |-> q, fatal |-> "", ub |-> "read past the sentinel", s |-> <<>>]
         ELSE [p |-> q, fatal |-> "", ub |-> "", s |-> Chars(s.p + 1, q)]

MapTable ==
    << K("*BITMAP", 7, "mMapName"), K("*UVW_U_OFFSET", 13, "mOffsetU"),
       K("*UVW_V_OFFSET", 13, "mOffsetV"), K("*UVW_U_TILING", 13, "mScaleU"),
       K("*UVW_V_TILING", 13, "mScaleV"), K("*UVW_ANGLE", 10, "mRotation"),
       K("*MAP_AMOUNT", 11, "mTextureBlend") >>

\* the ifs of ParseLV3MapBlock are not chained by else: after one handler returns the
\* later tests are made at the new cursor.  e is the effect so far, k the next entry.
RECURSIVE MapChain(_, _)
MapChain(e, k) ==
    IF k > Len(MapTable) \/ e.fatal # "" \/ e.ub # "" \/ e.p > Len(input) THEN e
    ELSE IF ~KeywordAt(e.p, MapTable[k].kw, MapTable[k].n) THEN MapChain(e, k + 1)
    ELSE IF e.p + MapTable[k].n + 1 > Len(input)
    THEN [e EXCEPT !.p = e.p + MapTable[k].n + 1]
    ELSE
    LET tgt == Top.tgt
        mat == MatAt(e.materials, tgt.path)
        p == e.p + MapTable[k].n + 1
        Put(f, v) == MatSet(e.materials, tgt.path,
                            [mat EXCEPT ![tgt.slot] = [@ EXCEPT ![f] = v]]) IN
    IF k = 1
    THEN LET q == QuotedString(p, "*BITMAP") IN
         MapChain([e EXCEPT !.p = q.p, !.fatal = q.fatal, !.ub = q.ub,
                            !.materials = IF q.fatal = "" /\ q.ub = ""
                                          THEN Put("mMapName", q.s) ELSE @], k + 1)
    ELSE LET r == ParseLV4MeshFloat(p, e.line) IN
         MapChain([e EXCEPT !.p = r.p, !.line = r.line, !.warn = @ \o r.warn,
                            !.materials = Put(MapTable[k].h, r.v)], k + 1)

-----------------------------------------------------------------------------
(* Geometry object, node transform, mesh, and the list blocks.             *)

CurMesh == m_vMeshes[Len(m_vMeshes)]
PutMesh(e, m) == [e EXCEPT !.meshes = [m_vMeshes EXCEPT ![Len(m_vMeshes)] = m]]

GeometryObjectTable ==
    << K("*NODE_NAME", 10, "name"), K("*NODE_TM", 8, "tm"), K("*MESH", 5, "mesh") >>

MeshLocals ==
    [iNumVertices |-> 0, iNumFaces |-> 0, iNumTVertices |-> 0, iNumTFaces |-> 0,
     iNumCVertices |-> 0, iNumCFaces |-> 0]

GeometryObjectHandler(h, p) ==
    IF h = "name"
    THEN LET q == QuotedString(p, "*NODE_NAME") IN
         IF q.fatal # "" \/ q.ub # ""
         THEN [E0(q.p) EXCEPT !.fatal = q.fatal, !.ub = q.ub]
         ELSE PutMesh(E0(q.p), [CurMesh EXCEPT !.mName = q.s])
    ELSE IF h = "tm"
    THEN [E0(p) EXCEPT !.push = <<Frame("ParseLV2NodeTransformBlock", <<>>, <<>>,
                                        BraceAfter(p))>>]
    ELSE [E0(p) EXCEPT !.push = <<Frame("ParseLV2MeshBlock", MeshLocals, <<>>,
                                        BraceAfter(p))>>]

NodeTransformTable ==
    << K("*TM_ROW0", 8, 1), K("*TM_ROW1", 8, 2), K("*TM_ROW2", 8, 3), K("*TM_ROW3", 8, 4) >>

NodeTransformHandler(h, p) ==
    LET r == ParseLV4MeshFloatTriple(p, iLineNumber) IN
    PutMesh(EV(r), [CurMesh EXCEPT !.mTransform[h] = r.v])

MeshTable ==
    << K("*MESH_NUMVERTEX", 15, "iNumVertices"), K("*MESH_NUMTVERTEX", 16, "iNumTVertices"),
       K("*MESH_NUMCVERTEX", 16, "iNumCVertices"), K("*MESH_NUMFACES", 14, "iNumFaces"),
       K("*MESH_NUMTVFACES", 16, "iNumTFaces"), K("*MESH_NUMCVFACES", 16, "iNumCFaces"),
       K("*MESH_VERTEX_LIST", 17, "vertexlist"), K("*MESH_FACE_LIST", 15, "facelist"),
       K("*MESH_TVERTLIST", 15, "tvertlist"), K("*MESH_TFACELIST", 15, "tfacelist"),
       K("*MESH_CVERTLIST", 15, "cvertlist"), K("*MESH_CFACELIST", 15, "cfacelist"),
       K("*MESH_MAPPINGCHANNEL", 20, "mappingchannel"), K("*MATERIAL_REF", 13, "materialref") >>

ListLocals(n, iChannel) == [n |-> n, iChannel |-> iChannel]

\* SkipOpeningBracket(), then a call of the list block parser fn; resized is the mesh
\* after the resize with which the callee starts
CallList(p, ln, warn, fn, loc, resized) ==
    LET b == SkipOpeningBracket(p, ln) IN
    [PutMesh(E0(b.p), resized) EXCEPT
        !.line = ln, !.warn = warn \o b.warn,
        !.push = <<Frame(fn, loc, <<>>, IF b.ok THEN SkipSpacesPos(p) ELSE 0)>>]

\* ParseLV3MeshTListBlock(iNumVertices, mesh, iChannel) starts by resizing
\* mesh.amTexCoords[iChannel]
CallTList(p, ln, warn, n, iChannel) ==
    IF iChannel \notin ChannelIds
    THEN LET b == SkipOpeningBracket(p, ln) IN
         [E0(b.p) EXCEPT !.line = ln, !.warn = warn \o b.warn,
                         !.ub = "amTexCoords[iChannel] out of bounds"]
    ELSE CallList(p, ln, warn, "ParseLV3MeshTListBlock", ListLocals(n, iChannel),
                  [CurMesh EXCEPT !.amTexCoords[iChannel] = Resize(@, n, Vec0)])

\* the *MESH_MAPPINGCHANNEL branch of ParseLV2MeshBlock
MappingChannelHandler(p) ==
    LET r == ParseLV4MeshLong(p, iLineNumber)
        \* if (iIndex < 2) { warn; SkipOpeningBracket(); SkipSection(); }
        w1 == IF r.v < 2 THEN <<W(r.line, "Mapping channel has an invalid index")>> ELSE <<>>
        b1 == SkipOpeningBracket(r.p, r.line)
        s1 == SkipSection(b1.p, r.line)
        p1 == IF r.v < 2 THEN s1.p ELSE r.p
        l1 == IF r.v < 2 THEN s1.line ELSE r.line
        a1 == r.warn \o w1 \o (IF r.v < 2 THEN b1.warn \o s1.warn ELSE <<>>)
        \* if (iIndex > AI_MAX_NUMBER_OF_TEXTURECOORDS) { warn; skip } else { call }
        b2 == SkipOpeningBracket(p1, l1)
        s2 == SkipSection(b2.p, l1) IN
    IF r.v > AI_MAX_NUMBER_OF_TEXTURECOORDS
    THEN [E0(s2.p) EXCEPT !.line = s2.line,
                          !.warn = a1 \o <<W(l1, "Too many UV channels specified")>>
                                      \o b2.warn \o s2.warn]
    ELSE [E0(b2.p) EXCEPT !.line = l1, !.warn = a1 \o b2.warn,
                          !.push = <<Frame("ParseLV3MappingChannel",
                                           [iNumTVertices |-> 0, iNumTFaces |-> 0,
                                            iChannel |-> UnsignedDec(r.v)],
                                           <<>>, IF b2.ok THEN SkipSpacesPos(p1) ELSE 0)>>]

MeshHandler(h, p) ==
    LET loc == Top.loc IN
    IF h \in DOMAIN MeshLocals
    THEN LET r == ParseLV4MeshLong(p, iLineNumber) IN
         [EV(r) EXCEPT !.loc = [loc EXCEPT ![h] = r.v]]
    ELSE IF h = "vertexlist"
    THEN [PutMesh(E0(p), [CurMesh EXCEPT !.mPositions = Resize(@, loc.iNumVertices, Vec0)])
            EXCEPT !.push = <<Frame("ParseLV3MeshVertexListBlock",
                                    ListLocals(loc.iNumVertices, 0), <<>>, BraceAfter(p))>>]
    ELSE IF h = "facelist"
    THEN CallList(p, iLineNumber, <<>>, "ParseLV3MeshFaceListBlock",
                  ListLocals(loc.iNumFaces, 0),
                  [CurMesh EXCEPT !.mFaces = Resize(@, loc.iNumFaces, DefaultFace)])
    ELSE IF h = "tvertlist"
    THEN CallTList(p, iLineNumber, <<>>, loc.iNumTVertices, 0)
    ELSE IF h = "tfacelist"
    THEN CallList(p, iLineNumber, <<>>, "ParseLV3MeshTFaceListBlock",
                  ListLocals(loc.iNumTFaces, 0), CurMesh)
    ELSE IF h = "cvertlist"
    THEN CallList(p, iLineNumber, <<>>, "ParseLV3MeshCListBlock",
                  ListLocals(loc.iNumCVertices, 0),
                  [CurMesh EXCEPT !.mVertexColors = Resize(@, loc.iNumCVertices, Vec0)])
    ELSE IF h = "cfacelist"
    THEN CallList(p, iLineNumber, <<>>, "ParseLV3MeshCFaceListBlock",
                  ListLocals(loc.iNumCFaces, 0), CurMesh)
    ELSE IF h = "mappingchannel"
    THEN MappingChannelHandler(p)
    ELSE LET r == ParseLV4MeshLong(p, iLineNumber) IN
         PutMesh(EV(r), [CurMesh EXCEPT !.iMaterialIndex = r.v])

MappingChannelTable ==
    << K("*MESH_NUMTVERTEX", 16, "iNumTVertices"), K("*MESH_NUMTVFACES", 16, "iNumTFaces"),
       K("*MESH_TVERTLIST", 15, "tvertlist"), K("*MESH_TFACELIST", 15, "tfacelist") >>

MappingChannelBlockHandler(h, p) ==
    LET loc == Top.loc IN
    IF h \in {"iNumTVertices", "iNumTFaces"}
    THEN LET r == ParseLV4MeshLong(p, iLineNumber) IN
         [EV(r) EXCEPT !.loc = [loc EXCEPT ![h] = r.v]]
    ELSE IF h = "tvertlist"
    THEN CallTList(p, iLineNumber, <<>>, loc.iNumTVertices, loc.iChannel)
    ELSE CallList(p, iLineNumber, <<>>, "ParseLV3MeshTFaceListBlock",
                  ListLocals(loc.iNumTFaces, loc.iChannel), CurMesh)

VertexListTable == << K("*MESH_VERTEX", 12, "vertex") >>
FaceListTable == << K("*MESH_FACE", 10, "face") >>
TListTable == << K("*MESH_TVERT", 11, "tvert") >>
TFaceListTable == << K("*MESH_TFACE", 12, "tface") >>
CListTable == << K("*MESH_VERTCOL", 13, "vertcol") >>
CFaceListTable == << K("*MESH_CFACE", 12, "cface") >>

\* an entry of a vertex, UV-vertex or vertex-colour list
VertexEntry(p, what) ==
    LET r == ParseLV4MeshFloatTripleIdx(p, iLineNumber)
        n == Top.loc.n
        ch == Top.loc.iChannel
        m == CurMesh IN
    IF r.idx >= n
    THEN LET e == [EV(r) EXCEPT !.warn = r.warn \o <<W(r.line, what \o " has an invalid index")>>]
         IN IF what = "Tvertex" /\ r.v[3] # 0
            THEN PutMesh(e, [m EXCEPT !.mNumUVComponents[ch] = 3])
            ELSE e
    ELSE IF what = "Vertex"
    THEN PutMesh(EV(r), [m EXCEPT !.mPositions[r.idx + 1] = r.v])
    ELSE IF what = "Vertex color"
    THEN PutMesh(EV(r), [m EXCEPT !.mVertexColors[r.idx + 1] = r.v])
    ELSE PutMesh(EV(r), [m EXCEPT !.amTexCoords[ch][r.idx + 1] = r.v,
                                  !.mNumUVComponents[ch] = IF r.v[3] # 0 THEN 3 ELSE @])

VertexListHandler(h, p) == VertexEntry(p, "Vertex")
TListHandler(h, p) == VertexEntry(p, "Tvertex")
CListHandler(h, p) == VertexEntry(p, "Vertex color")

\* a wrong variant of FaceListHandler, for comparison: a face index at or above the
\* declared count raises a fatal error
FaceListHandlerFatalIndex(h, p) ==
    LET r == ParseLV4MeshFace(p, iLineNumber)
        e == [E0(r.p) EXCEPT !.line = r.line, !.fatal = r.fatal, !.ub = r.ub] IN
    IF r.fatal # "" \/ r.ub # "" THEN e
    ELSE IF r.face.iFace >= Top.loc.n
    THEN [e EXCEPT !.fatal = "Face has an invalid index"]
    ELSE PutMesh(e, [CurMesh EXCEPT !.mFaces[r.face.iFace + 1] = r.face])

FaceListHandler(h, p) ==
    LET r == ParseLV4MeshFace(p, iLineNumber)
        e == [E0(r.p) EXCEPT !.line = r.line, !.fatal = r.fatal, !.ub = r.ub] IN
    IF r.fatal # "" \/ r.ub # "" THEN e
    ELSE IF r.face.iFace >= Top.loc.n
    THEN [e EXCEPT !.warn = <<W(r.line, "Face has an invalid index")>>]
    ELSE PutMesh(e, [CurMesh EXCEPT !.mFaces[r.face.iFace + 1] = r.face])

\* an entry of a UV-face or colour-face list
FaceIndexEntry(p, isUV) ==
    LET r == ParseLV4MeshLongTripleIdx(p, iLineNumber)
        ch == Top.loc.iChannel
        m == CurMesh IN
    IF r.idx >= Top.loc.n \/ r.idx >= Len(m.mFaces)
    THEN [EV(r) EXCEPT !.warn = r.warn \o <<W(r.line, "UV-Face has an invalid index")>>]
    ELSE IF isUV /\ ch \notin ChannelIds
    THEN [EV(r) EXCEPT !.ub = "amUVIndices[iChannel] out of bounds"]
    ELSE IF isUV
    THEN PutMesh(EV(r), [m EXCEPT !.mFaces[r.idx + 1].amUVIndices[ch] = r.v])
    ELSE PutMesh(EV(r), [m EXCEPT !.mFaces[r.idx + 1].mColorIndices = r.v])

TFaceListHandler(h, p) == FaceIndexEntry(p, TRUE)
CFaceListHandler(h, p) == FaceIndexEntry(p, FALSE)

-----------------------------------------------------------------------------
(* The block parsers: one step of the loop of each.                        *)

Parse ==
    /\ Running
    /\ Top.fn = "Parse"
    /\ IF Top.pc = "head" THEN BlockHead(ParseTable,
                             ParseHandler(Key(ParseTable), Behind(ParseTable)))
       ELSE BlockTail(FALSE,
                      "")

ParseLV1SceneBlock ==
    /\ Running
    /\ Top.fn = "ParseLV1SceneBlock"
    /\ IF Top.pc = "head" THEN BlockHead(SceneTable,
                             SceneHandler(Key(SceneTable), Behind(SceneTable)))
       ELSE BlockTail(FALSE,
                      "")

ParseLV1MaterialListBlock ==
    /\ Running
    /\ Top.fn = "ParseLV1MaterialListBlock"
    /\ IF Top.pc = "head" THEN BlockHead(MaterialListTable,
                             MaterialListHandler(Key(MaterialListTable), Behind(MaterialListTable)))
       ELSE BlockTail(FALSE,
                      "")

ParseLV2MaterialBlock ==
    /\ Running
    /\ Top.fn = "ParseLV2MaterialBlock"
    /\ IF Top.pc = "head" THEN BlockHead(MaterialTable,
                             MaterialHandler(Key(MaterialTable), Behind(MaterialTable)))
       ELSE BlockTail(TRUE,
                      "Unable to finish parsing a lv2 material block. Unexpected EOF")

ParseLV3MapBlock ==
    /\ Running
    /\ Top.fn = "ParseLV3MapBlock"
    /\ IF Top.pc = "head"
       THEN IF C(m_szFile) = "*" THEN Apply(MapChain(E0(m_szFile), 1))
            ELSE Apply(E0(m_szFile))
       ELSE BlockTail(TRUE, "Unable to finish parsing a lv3 map block. Unexpected EOF")

ParseLV1GeometryObjectBlock ==
    /\ Running
    /\ Top.fn = "ParseLV1GeometryObjectBlock"
    /\ IF Top.pc = "head" THEN BlockHead(GeometryObjectTable,
                             GeometryObjectHandler(Key(GeometryObjectTable), Behind(GeometryObjectTable)))
       ELSE BlockTail(FALSE,
                      "")

ParseLV2NodeTransformBlock ==
    /\ Running
    /\ Top.fn = "ParseLV2NodeTransformBlock"
    /\ IF Top.pc = "head" THEN BlockHead(NodeTransformTable,
                             NodeTransformHandler(Key(NodeTransformTable), Behind(NodeTransformTable)))
       ELSE BlockTail(TRUE,
                      "Unable to finish parsing a lv2 node transform block. Unexpected EOF")

\* a wrong variant of ParseLV2MeshBlock, for comparison: the end of the input is
\* tolerated as it is at level 1
ParseLV2MeshBlockEofTolerant ==
    /\ Running
    /\ Top.fn = "ParseLV2MeshBlock"
    /\ IF Top.pc = "head" THEN BlockHead(MeshTable,
                             MeshHandler(Key(MeshTable), Behind(MeshTable)))
       ELSE BlockTail(FALSE, "")

ParseLV2MeshBlock ==
    /\ Running
    /\ Top.fn = "ParseLV2MeshBlock"
    /\ IF Top.pc = "head" THEN BlockHead(MeshTable,
                             MeshHandler(Key(MeshTable), Behind(MeshTable)))
       ELSE BlockTail(TRUE,
                      "Unable to finish parsing a lv2 mesh block. Unexpected EOF")

ParseLV3MeshVertexListBlock ==
    /\ Running
    /\ Top.fn = "ParseLV3MeshVertexListBlock"
    /\ IF Top.pc = "head" THEN BlockHead(VertexListTable,
                             VertexListHandler(Key(VertexListTable), Behind(VertexListTable)))
       ELSE BlockTail(TRUE,
                      "Unable to finish parsing a lv3 vertex list block. Unexpected EOF")

ParseLV3MeshFaceListBlock ==
    /\ Running
    /\ Top.fn = "ParseLV3MeshFaceListBlock"
    /\ IF Top.pc = "head" THEN BlockHead(FaceListTable,
                             FaceListHandler(Key(FaceListTable), Behind(FaceListTable)))
       ELSE BlockTail(TRUE,
                      "Unable to finish parsing LV3 *MESH_FACE_LIST block. Unexpected EOF")

ParseLV3MeshTListBlock ==
    /\ Running
    /\ Top.fn = "ParseLV3MeshTListBlock"
    /\ IF Top.pc = "head" THEN BlockHead(TListTable,
                             TListHandler(Key(TListTable), Behind(TListTable)))
       ELSE BlockTail(TRUE,
                      "Unable to finish parsing LV3 *MESH_VERTEX_LIST block. Unexpected EOF")

ParseLV3MeshTFaceListBlock ==
    /\ Running
    /\ Top.fn = "ParseLV3MeshTFaceListBlock"
    /\ IF Top.pc = "head" THEN BlockHead(TFaceListTable,
                             TFaceListHandler(Key(TFaceListTable), Behind(TFaceListTable)))
       ELSE BlockTail(TRUE,
                      "Unable to finish parsing LV3 *MESH_TFACELIST block. Unexpected EOF")

ParseLV3MappingChannel ==
    /\ Running
    /\ Top.fn = "ParseLV3MappingChannel"
    /\ IF Top.pc = "head" THEN BlockHead(MappingChannelTable,
                             MappingChannelBlockHandler(Key(MappingChannelTable), Behind(MappingChannelTable)))
       ELSE BlockTail(TRUE,
                      "Unable to finish parsing a LV3 *MESH_MAPPINGCHANNEL block. Unexpected EOF")

ParseLV3MeshCListBlock ==
    /\ Running
    /\ Top.fn = "ParseLV3MeshCListBlock"
    /\ IF Top.pc = "head" THEN BlockHead(CListTable,
                             CListHandler(Key(CListTable), Behind(CListTable)))
       ELSE BlockTail(TRUE,
                      "Unable to finish parsing LV3 *MESH_CVERTLIST block. Unexpected EOF")

ParseLV3MeshCFaceListBlock ==
    /\ Running
    /\ Top.fn = "ParseLV3MeshCFaceListBlock"
    /\ IF Top.pc = "head" THEN BlockHead(CFaceListTable,
                             CFaceListHandler(Key(CFaceListTable), Behind(CFaceListTable)))
       ELSE BlockTail(TRUE,
                      "Unable to finish parsing LV3 *MESH_CFACELIST block. Unexpected EOF")

-----------------------------------------------------------------------------
(* ParseLV3MeshNormalListBlock.  No block parser calls it; it is modelled  *)
(* as entered on the last mesh, behind the '{' of its block.               *)

NormalListTable == << K("*MESH_VERTEXNORMAL", 18, "normal") >>

NormalListHandler(h, p) ==
    LET r == ParseLV4MeshFloatTripleIdx(p, iLineNumber)
        m == CurMesh
        size == Len(m.mNormals)
        iIndex == ClampIndex(r.idx, size)
        w == IF r.idx >= size THEN <<W(r.line, "Normal index is too large")>> ELSE <<>> IN
    IF iIndex >= size
    THEN [EV(r) EXCEPT !.warn = r.warn \o w, !.ub = "mNormals[iIndex] out of bounds"]
    ELSE PutMesh([EV(r) EXCEPT !.warn = r.warn \o w], [m EXCEPT !.mNormals[iIndex + 1] = r.v])

\* the end of the loop body: as in the other blocks, but line ends are not counted
NormalListTail ==
    LET c == C(m_szFile)
        f == Top
        pop == SubSeq(stack, 1, Len(stack) - 1) IN
    /\ UNCHANGED <<input, m_vMeshes, m_vMaterials, m_clrBackground, m_clrAmbient,
                   warnings, ub, iLineNumber>>
    /\ IF c = "}" /\ f.iDepth - 1 = 0
       THEN /\ m_szFile' = SkipToNextToken(m_szFile + 1)
            /\ stack' = pop
            /\ status' = IF pop = <<>> THEN "done" ELSE status
            /\ lastReturn' = [fn |-> f.fn, open |-> f.open, close |-> m_szFile]
            /\ UNCHANGED error
       ELSE IF c = NUL
       THEN /\ status' = "fatal"
            /\ error' = <<W(iLineNumber, "Unable to parse *MESH_NORMALS Element: Unexpected EOL [#1]")>>
            /\ stack' = <<>>
            /\ UNCHANGED <<m_szFile, lastReturn>>
       ELSE /\ m_szFile' = m_szFile + 1
            /\ stack' = [stack EXCEPT ![Len(stack)] =
                            [@ EXCEPT !.pc = "head",
                                      !.iDepth = IF c = "{" THEN @ + 1
                                                 ELSE IF c = "}" THEN @ - 1 ELSE @]]
            /\ UNCHANGED <<status, error, lastReturn>>

ParseLV3MeshNormalListBlock ==
    /\ Running
    /\ Top.fn = "ParseLV3MeshNormalListBlock"
    /\ IF Top.pc = "head" THEN BlockHead(NormalListTable,
                             NormalListHandler(Key(NormalListTable), Behind(NormalListTable)))
       ELSE NormalListTail

\* an out-of-bounds read or write, or a shift by 32 or more, has happened: the run
\* may crash, go on to a fatal error, or return as if nothing had happened
UndefinedBehaviour ==
    /\ status = "running"
    /\ ub # ""
    /\ status' \in {"crashed", "fatal", "done"}
    /\ error' = IF status' = "fatal" THEN <<W(iLineNumber, "after undefined behaviour")>>
                ELSE <<>>
    /\ stack' = <<>>
    /\ UNCHANGED <<input, m_szFile, iLineNumber, m_vMeshes, m_vMaterials, m_clrBackground,
                   m_clrAmbient, warnings, ub, lastReturn>>

Next ==
    \/ Parse
    \/ ParseLV1SceneBlock
    \/ ParseLV1MaterialListBlock
    \/ ParseLV2MaterialBlock
    \/ ParseLV3MapBlock
    \/ ParseLV1GeometryObjectBlock
    \/ ParseLV2NodeTransformBlock
    \/ ParseLV2MeshBlock
    \/ ParseLV3MeshVertexListBlock
    \/ ParseLV3MeshFaceListBlock
    \/ ParseLV3MeshTListBlock
    \/ ParseLV3MeshTFaceListBlock
    \/ ParseLV3MappingChannel
    \/ ParseLV3MeshCListBlock
    \/ ParseLV3MeshCFaceListBlock
    \/ UndefinedBehaviour

-----------------------------------------------------------------------------
(* Input texts.                                                            *)

SP == <<" ">>
NL == <<"\n">>
LB == <<"{">>
RB == <<"}">>
QT == <<"\"">>
END == <<NUL>>

RECURSIVE Cat(_)
Cat(ss) == IF ss = <<>> THEN <<>> ELSE Head(ss) \o Cat(Tail(ss))

\* a keyword followed by one blank
Kw(l) == Lit[l] \o SP
\* the decimal digits of n < 1000
Dec(n) ==
    IF n < 10 THEN <<Digits[n + 1]>>
    ELSE IF n < 100 THEN <<Digits[(n \div 10) + 1], Digits[(n % 10) + 1]>>
    ELSE <<Digits[(n \div 100) + 1], Digits[((n \div 10) % 10) + 1], Digits[(n % 10) + 1]>>

\* the state after Parser::Parser(szFile), with Parse() about to run
InitWith(text) ==
    /\ input = text
    /\ m_szFile = 1
    /\ iLineNumber = 0
    /\ stack = <<Frame("Parse", <<>>, <<>>, 0)>>
    /\ m_vMeshes = <<>>
    /\ m_vMaterials = <<>>
    /\ m_clrBackground = <<NaN, 0, 0>>
    /\ m_clrAmbient = <<NaN, 0, 0>>
    /\ warnings = <<>>
    /\ status = "running"
    /\ error = <<>>
    /\ ub = ""
    /\ lastReturn = NoReturn

\* one line: the pieces, then a line feed
Line(pieces) == Cat(pieces) \o NL
\* "*KEYWORD {" line, the body, "}" line
Block(l, body) == Kw(l) \o LB \o NL \o body \o RB \o NL
\* a keyword the parser does not know
Unknown == <<"*", "P", "R", "O", "P">>
\* "*KEYWORD n" line
Count(l, n) == Line(<<Kw(l), Dec(n)>>)
\* "*KEYWORD i x y z" line of a vertex, UV-vertex or vertex-colour list
Entry(l, i, v) == Line(<<Kw(l), Dec(i), SP, Dec(v[1]), SP, Dec(v[2]), SP, Dec(v[3])>>)
\* "*MESH_FACE i: A: a B: b C: c" line
FaceLine(i, v) ==
    Line(<<Kw("*MESH_FACE"), Dec(i), <<":", " ", "A", ":", " ">>, Dec(v[1]),
           <<" ", "B", ":", " ">>, Dec(v[2]), <<" ", "C", ":", " ">>, Dec(v[3])>>)

-----------------------------------------------------------------------------
(* Well-formed files: a material list of one material and one geometry     *)
(* object whose mesh declares N vertices and M faces and lists them.       *)

MaxCount == 2

VersionLine == Line(<<Kw("*3DSMAX_ASCIIEXPORT"), Dec(200)>>)

MeshFile(body) == Block("*GEOMOBJECT", Block("*MESH", body))

\* the i-th vertex of the texts: distinct non-zero components
Triple(i) == <<3 * i + 1, 3 * i + 2, 3 * i + 3>>

WellFormedFile(N, M, withVersion) ==
    LET V(k) == Entry("*MESH_VERTEX", k - 1, Triple(k - 1))
        F(k) == FaceLine(k - 1, <<0, 0, 0>>) IN
    (IF withVersion THEN VersionLine ELSE <<>>)
    \o Block("*MATERIAL_LIST",
             Count("*MATERIAL_COUNT", 1)
             \o Line(<<Kw("*MATERIAL"), Dec(0), SP, LB>>)
             \o Line(<<Kw("*MATERIAL_NAME"), <<"m">>>>)
             \o Line(<<RB>>))
    \o MeshFile(Count("*MESH_NUMVERTEX", N)
                \o Count("*MESH_NUMFACES", M)
                \o Block("*MESH_VERTEX_LIST", Cat([k \in 1..N |-> V(k)]))
                \o Block("*MESH_FACE_LIST", Cat([k \in 1..M |-> F(k)])))
    \o END

WellFormedCases == (0..MaxCount) \X (0..MaxCount) \X BOOLEAN
WellFormed == [c \in WellFormedCases |-> WellFormedFile(c[1], c[2], c[3])]
WellFormedFiles == { WellFormed[c] : c \in WellFormedCases }

-----------------------------------------------------------------------------
(* Small files with balanced braces.                                       *)

BraceTexts ==
    { Block("*SCENE", <<>>) \o Block("*GEOMOBJECT", <<>>),
      Block("*SCENE", Line(<<Kw("*SCENE_AMBIENT_STATIC"), Dec(1), SP, Dec(1), SP, Dec(1)>>))
        \o Block("*GEOMOBJECT", <<>>),
      Block("*MATERIAL_LIST", Count("*MATERIAL_COUNT", 0)) \o Block("*GEOMOBJECT", <<>>),
      Block("*GEOMOBJECT", Block("*NODE_TM", <<>>) \o Block("*MESH", <<>>)),
      MeshFile(Count("*MESH_NUMFACES", 0) \o Line(<<Unknown>>)
               \o Block("*MESH_FACE_LIST", <<>>) \o Count("*MATERIAL_REF", 1)) }

BraceFiles == { t \o END : t \in BraceTexts }

-----------------------------------------------------------------------------
(* Lists of two entries in both orders, with and without a line between    *)
(* the declared count and the list.                                        *)

ListKinds ==
    { [count |-> "*MESH_NUMVERTEX", list |-> "*MESH_VERTEX_LIST", entry |-> "*MESH_VERTEX"],
      [count |-> "*MESH_NUMTVERTEX", list |-> "*MESH_TVERTLIST", entry |-> "*MESH_TVERT"],
      [count |-> "*MESH_NUMCVERTEX", list |-> "*MESH_CVERTLIST", entry |-> "*MESH_VERTCOL"] }

ListFile(kind, order, pad) ==
    LET E(k) == Entry(kind.entry, order[k], Triple(order[k])) IN
    MeshFile(Count(kind.count, Len(order))
             \o (IF pad THEN Line(<<Unknown>>) ELSE <<>>)
             \o Block(kind.list, Cat([k \in 1..Len(order) |-> E(k)])))
    \o END

ListCases == ListKinds \X {<<0, 1>>, <<1, 0>>} \X BOOLEAN
ListFileOf == [c \in ListCases |-> ListFile(c[1], c[2], c[3])]
ListFiles == { ListFileOf[c] : c \in ListCases }

\* the array a list kind fills, of the mesh m
ListArray(kind, m) ==
    IF kind.entry = "*MESH_VERTEX" THEN m.mPositions
    ELSE IF kind.entry = "*MESH_TVERT" THEN m.amTexCoords[0]
    ELSE m.mVertexColors

-----------------------------------------------------------------------------
(* Lists of declared count 1 with an entry of index 1: alone, and after    *)
(* the entry of index 0.                                                   *)

OutOfRangeKinds ==
    ListKinds \cup
    { [count |-> "*MESH_NUMFACES", list |-> "*MESH_FACE_LIST", entry |-> "*MESH_FACE"] }

OutOfRangeFile(kind, withValid) ==
    LET E(i) == IF kind.entry = "*MESH_FACE" THEN FaceLine(i, Triple(i))
                ELSE Entry(kind.entry, i, Triple(i)) IN
    MeshFile(Count(kind.count, 1)
             \o Line(<<Unknown>>)
             \o Block(kind.list, (IF withValid THEN E(0) ELSE <<>>) \o E(1)))
    \o END

OutOfRangeCases == OutOfRangeKinds \X BOOLEAN
OutOfRangeFileOf == [c \in OutOfRangeCases |-> OutOfRangeFile(c[1], c[2])]
OutOfRangeFiles == { OutOfRangeFileOf[c] : c \in OutOfRangeCases }

-----------------------------------------------------------------------------
(* Material lists that declare no material, and mapping channels.          *)

MaterialCountZeroTexts ==
    { Block("*MATERIAL_LIST", Line(<<Kw("*MATERIAL"), Dec(0), SP, LB>>) \o Line(<<RB>>)),
      Block("*MATERIAL_LIST",
            Count("*MATERIAL_COUNT", 0)
            \o Line(<<Unknown>>)
            \o Line(<<Kw("*MATERIAL"), Dec(0), SP, LB>>)
            \o Line(<<RB>>)) }

\* "*MESH_MAPPINGCHANNEL iIndex {" with one UV vertex (the i-th triple) in its list
Channel(iIndex, i) ==
    Line(<<Kw("*MESH_MAPPINGCHANNEL"), Dec(iIndex), SP, LB>>)
    \o Count("*MESH_NUMTVERTEX", 1)
    \o Line(<<Unknown>>)
    \o Block("*MESH_TVERTLIST", Entry("*MESH_TVERT", 0, Triple(i)))
    \o Line(<<RB>>)

\* a mesh with the mapping channel iIndex alone
ChannelFile(iIndex) == MeshFile(Channel(iIndex, 0)) \o END
\* a mesh with the mapping channel first and then the mapping channel 2
TwoChannelFile(first) == MeshFile(Channel(first, 0) \o Channel(2, 1)) \o END

ChannelIndices == 0..(AI_MAX_NUMBER_OF_TEXTURECOORDS + 1)
ChannelFileOf == [i \in ChannelIndices |-> ChannelFile(i)]
TwoChannelFileOf == [i \in {0, 1} |-> TwoChannelFile(i)]
ChannelFiles ==
    { ChannelFileOf[i] : i \in ChannelIndices } \cup { TwoChannelFileOf[i] : i \in {0, 1} }

-----------------------------------------------------------------------------
(* Face records.                                                           *)

Upper == <<"A", "B", "C">>
Lower == <<"a", "b", "c">>
Perm3 == { p \in [1..3 -> 1..3] : \A i, j \in 1..3 : i # j => p[i] # p[j] }
\* the value a record gives the label of slot k
LabelValue == <<5, 7, 9>>

RECURSIVE CommaList(_)
CommaList(gs) ==
    IF Len(gs) = 1 THEN Dec(gs[1]) ELSE Dec(gs[1]) \o <<",">> \o CommaList(Tail(gs))

\* "*MESH_FACE i: L: v L: v L: v [AB: 1 BC: 1 CA: 0] [*MESH_SMOOTHING g,..] [*MESH_MTLID m]"
\* with the labels in the order p and in the letter case of letters
FaceRecord(i, p, letters, edges, groups, mtl) ==
    LET Ref(k) == <<" ", letters[p[k]], ":", " ">> \o Dec(LabelValue[p[k]]) IN
    Line(<<Kw("*MESH_FACE"), Dec(i), <<":">>, Ref(1), Ref(2), Ref(3),
           IF edges THEN <<" ", "A", "B", ":", " ", "1", " ", "B", "C", ":", " ", "1",
                           " ", "C", "A", ":", " ", "0">>
           ELSE <<>>,
           IF groups # <<>> THEN SP \o Kw("*MESH_SMOOTHING") \o CommaList(groups) ELSE <<>>,
           IF mtl # <<>> THEN SP \o Kw("*MESH_MTLID") \o Dec(mtl[1]) ELSE <<>>>>)

FaceFile(record) ==
    MeshFile(Count("*MESH_NUMFACES", MaxCount)
             \o Line(<<Unknown>>)
             \o Block("*MESH_FACE_LIST", record))
    \o END

LabelCases == (0..(MaxCount - 1)) \X Perm3 \X {Upper, Lower}
LabelFileOf ==
    [c \in LabelCases |-> FaceFile(FaceRecord(c[1], c[2], c[3], FALSE, <<>>, <<>>))]

GroupLists == { <<>>, <<1>>, <<1, 3>>, <<3, 1>>, <<0, 31>>, <<31, 5, 0>> }
ClauseCases == GroupLists \X { <<>>, <<2>> } \X BOOLEAN
ClauseFileOf ==
    [c \in ClauseCases |->
        FaceFile(FaceRecord(0, [k \in 1..3 |-> k], Upper, c[3], c[1], c[2]))]

FaceFiles == { LabelFileOf[c] : c \in LabelCases } \cup { ClauseFileOf[c] : c \in ClauseCases }

-----------------------------------------------------------------------------
(* Malformed texts: those for which the parser raises a fatal error by     *)
(* itself, and those it only warns about or passes over.                   *)

\* a material list of one material with the given body
MaterialFile(body) ==
    Block("*MATERIAL_LIST",
          Count("*MATERIAL_COUNT", 1)
          \o Line(<<Unknown>>)
          \o Line(<<Kw("*MATERIAL"), Dec(0), SP, LB>>)
          \o body
          \o Line(<<RB>>))
    \o END

\* "*MESH_FACE 0: A: 5 B: 7 C: 9" and what follows it on the line
FaceLineWith(rest) ==
    Line(<<Kw("*MESH_FACE"), Dec(0), <<":", " ", "A", ":", " ", "5", " ", "B", ":", " ", "7",
           " ", "C", ":", " ", "9", " ">>, rest>>)

FatalFileOf ==
       ("*MATERIAL_NAME" :> MaterialFile(Line(<<Kw("*MATERIAL_NAME")>>)))
    @@ ("*BITMAP" :> MaterialFile(Block("*MAP_DIFFUSE", Line(<<Kw("*BITMAP"), <<"a">>>>))))
    @@ ("*NODE_NAME" :> Block("*GEOMOBJECT", Line(<<Kw("*NODE_NAME"), <<"B">>>>)) \o END)
    @@ ("index" :> FaceFile(Line(<<Kw("*MESH_FACE")>>)))
    @@ ("colon" :> FaceFile(Line(<<Kw("*MESH_FACE"), <<"0", " ", "A", ":", " ", "5">>>>)))
    @@ ("label" :> FaceFile(Line(<<Kw("*MESH_FACE"), <<"0", ":", " ", "X", ":", " ", "5">>>>)))
    @@ ("vertex" :> FaceFile(Line(<<Kw("*MESH_FACE"), <<"0", ":", " ", "A", ":">>>>)))
    @@ ("*MESH_SMOOTHING" :> FaceFile(FaceLineWith(Kw("*MESH_SMOOTHING"))))
    @@ ("*MESH_MTLID" :> FaceFile(FaceLineWith(Kw("*MESH_MTLID"))))
FatalFiles == { FatalFileOf[k] : k \in DOMAIN FatalFileOf }

RecoverableFileOf ==
       ("brace" :> MeshFile(Count("*MESH_NUMFACES", 1)
                            \o Line(<<Unknown>>)
                            \o Line(<<Kw("*MESH_FACE_LIST"), <<"x">>>>)
                            \o Line(<<RB>>)) \o END)
    @@ ("line end" :> MeshFile(Line(<<Kw("*MESH_NUMVERTEX")>>)) \o END)
    @@ ("end of input" :> Kw("*GEOMOBJECT") \o LB \o NL \o Kw("*MESH") \o LB \o NL
                          \o Kw("*MESH_NUMVERTEX") \o END)
    @@ ("shading" :> MaterialFile(Line(<<Kw("*MATERIAL_SHADING"), <<"F", "o", "o">>>>)))
RecoverableFiles ==
    { RecoverableFileOf[k] : k \in DOMAIN RecoverableFileOf }
    \cup OutOfRangeFiles
    \cup { ChannelFileOf[i] : i \in {0, 1, AI_MAX_NUMBER_OF_TEXTURECOORDS + 1} }

-----------------------------------------------------------------------------
(* Files of n geometry objects, the k-th named by the k-th letter.         *)

ObjectNames == <<"a", "b", "c", "d">>
Object(k) == Block("*GEOMOBJECT", Line(<<Kw("*NODE_NAME"), QT, <<ObjectNames[k]>>, QT>>))
ObjectsFileOf == [n \in 1..MaxCount |-> Cat([k \in 1..n |-> Object(k)]) \o END]
ObjectsFiles == { ObjectsFileOf[n] : n \in 1..MaxCount }

-----------------------------------------------------------------------------
(* Texts that end with a keyword, directly before the terminating NUL.     *)

KeywordLastFiles ==
    { Lit["*SCENE"] \o END,
      Kw("*GEOMOBJECT") \o LB \o NL \o Lit["*MESH"] \o END,
      Kw("*GEOMOBJECT") \o LB \o NL \o Kw("*MESH") \o LB \o NL
        \o Count("*MESH_NUMTVFACES", 1) \o Line(<<Unknown>>)
        \o Kw("*MESH_TFACELIST") \o LB \o NL \o Lit["*MESH_TFACE"] \o END }

-----------------------------------------------------------------------------
(* Materials with a transparency and a shininess, in both orders, on       *)
(* consecutive lines or with a line between them.                          *)

\* the transparency t and the shininess s of the texts
ShineValues == [t |-> 1, s |-> 2]
TransparencyLine == Count("*MATERIAL_TRANSPARENCY", ShineValues.t)
ShineLine == Count("*MATERIAL_SHINE", ShineValues.s)
ShineFile(shineFirst, pad) ==
    MaterialFile((IF shineFirst THEN ShineLine ELSE TransparencyLine)
                 \o (IF pad THEN Line(<<Unknown>>) ELSE <<>>)
                 \o (IF shineFirst THEN TransparencyLine ELSE ShineLine))
ShineCases == BOOLEAN \X BOOLEAN
ShineFileOf == [c \in ShineCases |-> ShineFile(c[1], c[2])]
ShineFiles == { ShineFileOf[c] : c \in ShineCases }

-----------------------------------------------------------------------------
(* The text "*3DSMAX_ASCIIEXPORT 200 { }".                                 *)

EmptyExportFile == Kw("*3DSMAX_ASCIIEXPORT") \o Dec(200) \o SP \o LB \o SP \o RB \o END

-----------------------------------------------------------------------------
(* Quoted strings that are closed, each followed by one more keyword.      *)

StringValues == { <<"a", " ", "b">>, <<>>, <<"}">>, <<"*", "x">>, <<"B", "o", "x">> }
BitmapFileOf ==
    [s \in StringValues |->
        MaterialFile(Block("*MAP_DIFFUSE",
                           Line(<<Kw("*BITMAP"), QT, s, QT>>) \o Count("*UVW_U_OFFSET", 2)))]
NodeNameFileOf ==
    [s \in StringValues |->
        Block("*GEOMOBJECT",
              Line(<<Kw("*NODE_NAME"), QT, s, QT>>)
              \o Block("*NODE_TM", Line(<<Kw("*TM_ROW0"), Dec(1), SP, Dec(2), SP, Dec(3)>>)))
        \o END]
QuotedFiles ==
    { BitmapFileOf[s] : s \in StringValues } \cup { NodeNameFileOf[s] : s \in StringValues }

-----------------------------------------------------------------------------
(* The same rest of a file behind different version numbers.               *)

Versions == {200, 0, 3, 20, 199, 201, 999}
VersionRests == {"object", "object first", "materials"}
VersionRestOf ==
    [r \in VersionRests |->
        IF r = "object"
        THEN Line(<<Unknown>>)
             \o Block("*GEOMOBJECT", Line(<<Kw("*NODE_NAME"), QT, <<"B", "o", "x">>, QT>>))
        ELSE IF r = "object first"
        THEN Block("*GEOMOBJECT", Line(<<Kw("*NODE_NAME"), QT, <<"B", "o", "x">>, QT>>))
        ELSE Line(<<Unknown>>)
             \o Block("*MATERIAL_LIST", Count("*MATERIAL_COUNT", 1))]
VersionFileOf ==
    [v \in Versions |-> [r \in VersionRests |->
        Line(<<Kw("*3DSMAX_ASCIIEXPORT"), Dec(v)>>) \o VersionRestOf[r] \o END]]
VersionFiles == { VersionFileOf[v][r] : v \in Versions, r \in VersionRests }
\* what the parse of each rest leaves behind, whatever version stands before it
VersionSceneOf ==
    [r \in VersionRests |->
        IF r = "object"
        THEN [meshes |-> <<[DefaultMesh EXCEPT !.mName = <<"B", "o", "x">>]>>,
              materials |-> <<>>, line |-> 4]
        ELSE IF r = "object first"
        THEN [meshes |-> <<>>, materials |-> <<>>, line |-> 3]
        ELSE [meshes |-> <<>>, materials |-> <<DefaultMaterial>>, line |-> 2]]

-----------------------------------------------------------------------------
(* A keyword of the block's table on the line after another one's value.   *)

KeywordAfterValueFileOf ==
    ("*TM_ROW1" :>
        Block("*GEOMOBJECT",
              Block("*NODE_TM",
                    Line(<<Kw("*TM_ROW0"), Dec(1), SP, Dec(0), SP, Dec(0)>>)
                    \o Line(<<Kw("*TM_ROW1"), Dec(0), SP, Dec(1), SP, Dec(0)>>))) \o END)
    @@ ("*MESH_NUMFACES" :>
        MeshFile(Count("*MESH_NUMVERTEX", 1) \o Count("*MESH_NUMFACES", 2)) \o END)
    @@ ("*SCENE_AMBIENT_STATIC" :>
        Block("*SCENE",
              Line(<<Kw("*SCENE_BACKGROUND_STATIC"), Dec(1), SP, Dec(2), SP, Dec(3)>>)
              \o Line(<<Kw("*SCENE_AMBIENT_STATIC"), Dec(4), SP, Dec(5), SP, Dec(6)>>)) \o END)
    @@ ("*MESH_VERTEX" :>
        MeshFile(Count("*MESH_NUMVERTEX", 2)
                 \o Line(<<Unknown>>)
                 \o Block("*MESH_VERTEX_LIST",
                          Entry("*MESH_VERTEX", 0, <<1, 2, 3>>)
                          \o Entry("*MESH_VERTEX", 1, <<4, 5, 6>>))) \o END)
KeywordAfterValueFiles ==
    { KeywordAfterValueFileOf[k] : k \in DOMAIN KeywordAfterValueFileOf }

-----------------------------------------------------------------------------
(* UV-face and colour-face lists, with and without a face array.           *)

IndexFaceKinds ==
    { [count |-> "*MESH_NUMTVFACES", list |-> "*MESH_TFACELIST", entry |-> "*MESH_TFACE"],
      [count |-> "*MESH_NUMCVFACES", list |-> "*MESH_CFACELIST", entry |-> "*MESH_CFACE"] }
\* one face, then a list with the entry "0 4 5 6" for it
IndexFaceFileOf ==
    [k \in IndexFaceKinds |->
        MeshFile(Count("*MESH_NUMFACES", 1)
                 \o Line(<<Unknown>>)
                 \o Block("*MESH_FACE_LIST", FaceLine(0, <<1, 2, 3>>))
                 \o Line(<<Unknown>>)
                 \o Count(k.count, 1)
                 \o Line(<<Unknown>>)
                 \o Block(k.list, Entry(k.entry, 0, <<4, 5, 6>>)))
        \o END]
\* the same list in a mesh without faces: index 0 is not below the length of the array
NoFaceFileOf ==
    [k \in IndexFaceKinds |->
        MeshFile(Count(k.count, 1)
                 \o Line(<<Unknown>>)
                 \o Block(k.list, Entry(k.entry, 0, <<4, 5, 6>>)))
        \o END]
IndexFaceFiles ==
    { IndexFaceFileOf[k] : k \in IndexFaceKinds } \cup { NoFaceFileOf[k] : k \in IndexFaceKinds }

-----------------------------------------------------------------------------
(* A list keyword that is not followed by '{', then a keyword of the mesh. *)

MissingBraceLists ==
    {"*MESH_FACE_LIST", "*MESH_TVERTLIST", "*MESH_TFACELIST", "*MESH_CVERTLIST",
     "*MESH_CFACELIST"}
\* the list keyword is followed by the character x (junk) or by the line end (bare)
MissingBraceCases == MissingBraceLists \X {"junk", "bare"}
MissingBraceFileOf ==
    [c \in MissingBraceCases |->
        MeshFile(Line(<<Unknown>>)
                 \o Line(<<Kw(c[1]), IF c[2] = "junk" THEN <<"x">> ELSE <<>>>>)
                 \o Line(<<Unknown>>)
                 \o Count("*MATERIAL_REF", 1))
        \o END]
MissingBraceFiles == { MissingBraceFileOf[c] : c \in MissingBraceCases }

-----------------------------------------------------------------------------
(* Material and sub-material entries with an index below, at and above the *)
(* declared count, at nesting depths 0, 1 and 2.                            *)

\* the body of the selected entry: a shine of 2, then a line that is no value
ShineBody == Count("*MATERIAL_SHINE", 2) \o Line(<<Unknown>>)
\* n sub-materials declared, one entry with index i and the given body
SubMaterialText(n, i, body) ==
    Count("*NUMSUBMTLS", n)
    \o Line(<<Unknown>>)
    \o Line(<<Kw("*SUBMATERIAL"), Dec(i), SP, LB>>)
    \o body
    \o Line(<<RB>>)
    \o Line(<<Unknown>>)
MaterialListText(n, i, body) ==
    Block("*MATERIAL_LIST",
          Count("*MATERIAL_COUNT", n)
          \o Line(<<Unknown>>)
          \o Line(<<Kw("*MATERIAL"), Dec(i), SP, LB>>)
          \o body
          \o Line(<<RB>>))
    \o END
IndexCases == (0..2) \X (1..MaxCount) \X (0..(MaxCount + 1))
IndexFileOf ==
    [c \in IndexCases |->
        IF c[1] = 0 THEN MaterialListText(c[2], c[3], ShineBody)
        ELSE IF c[1] = 1 THEN MaterialListText(1, 0, SubMaterialText(c[2], c[3], ShineBody))
        ELSE MaterialListText(1, 0,
                 SubMaterialText(1, 0, SubMaterialText(c[2], c[3], ShineBody)))]
IndexFiles == { IndexFileOf[c] : c \in IndexCases }
\* the materials among which the entry of case c selects one
IndexSiblings(c) ==
    IF c[1] = 0 THEN m_vMaterials
    ELSE IF c[1] = 1 THEN m_vMaterials[1].avSubMaterials
    ELSE m_vMaterials[1].avSubMaterials[1].avSubMaterials
\* the slot (from 1) the entry of case c is to be parsed into
IndexSlot(c) == IF c[3] >= c[2] THEN c[2] ELSE c[3] + 1

-----------------------------------------------------------------------------
(* A block behind an unknown keyword that holds keywords of the enclosing  *)
(* block's table.                                                          *)

UnknownBlock(body) == Unknown \o SP \o LB \o NL \o body \o RB \o NL
UnknownBlockFileOf ==
    ("top" :>
        UnknownBlock(Block("*GEOMOBJECT", Line(<<Kw("*NODE_NAME"), QT, <<"x">>, QT>>))) \o END)
    @@ ("object" :>
        Block("*GEOMOBJECT",
              Line(<<Kw("*NODE_NAME"), QT, <<"a">>, QT>>)
              \o UnknownBlock(Line(<<Kw("*NODE_NAME"), QT, <<"x">>, QT>>))) \o END)
UnknownBlockFiles == { UnknownBlockFileOf[k] : k \in DOMAIN UnknownBlockFileOf }

-----------------------------------------------------------------------------
(* A value line with j of its values present, ended by a line end or by    *)
(* the end of the input.                                                   *)

ShortValues == <<4, 5, 6>>
ShortValueText(j) ==
    IF j = 0 THEN <<>>
    ELSE IF j = 1 THEN Dec(4)
    ELSE IF j = 2 THEN Dec(4) \o SP \o Dec(5)
    ELSE Dec(4) \o SP \o Dec(5) \o SP \o Dec(6)
ShortValueCases == (0..3) \X {"line", "input"}
ShortValueFileOf ==
    [c \in ShortValueCases |->
        Kw("*SCENE") \o LB \o NL
        \o Kw("*SCENE_BACKGROUND_STATIC") \o ShortValueText(c[1])
        \o (IF c[2] = "line" THEN NL \o Unknown \o SP \o Dec(7) \o NL \o RB \o NL ELSE <<>>)
        \o END]
ShortValueFiles == { ShortValueFileOf[c] : c \in ShortValueCases }
\* where the values of these files start: behind the keyword
ShortValueAt == Len(Kw("*SCENE") \o LB \o NL \o Kw("*SCENE_BACKGROUND_STATIC")) + 1
\* the first j values, then zeros
ShortValuePadded(j) == [i \in 1..3 |-> IF i <= j THEN ShortValues[i] ELSE 0]
\* the values behind an index: the first value is taken as the index
ShortValueBehindIndex(j) == [i \in 1..3 |-> IF i + 1 <= j THEN ShortValues[i + 1] ELSE 0]

-----------------------------------------------------------------------------
(* The content of a normal list: one *MESH_VERTEXNORMAL entry.             *)

NormalValues == <<1, 2, 3>>
NormalIndices == 0..(MaxCount + 1)
NormalFileOf ==
    [i \in NormalIndices |->
        NL \o Entry("*MESH_VERTEXNORMAL", i, NormalValues) \o Line(<<Unknown>>)
        \o RB \o NL \o END]
NormalFiles == { NormalFileOf[i] : i \in NormalIndices }

-----------------------------------------------------------------------------
(* Texts for SkipSection: a balanced piece, its closing brace and a rest;  *)
(* and pieces that are never closed.                                       *)

SkipLen == 3
SkipAlphabet == {"{", "}", "\n", "a"}
SkipPieces == UNION { [1..n -> SkipAlphabet] : n \in 0..SkipLen }
\* no prefix of t closes more braces than it opens
NeverClosed(t) ==
    \A q \in 1..Len(t) :
        Cardinality({j \in 1..q : t[j] = "}"}) <= Cardinality({j \in 1..q : t[j] = "{"})
OpenPieces == { t \in SkipPieces : NeverClosed(t) }
\* ... and it closes all it opens
BalancedPieces ==
    { t \in OpenPieces : Cardinality({j \in 1..Len(t) : t[j] = "}"})
                            = Cardinality({j \in 1..Len(t) : t[j] = "{"}) }
\* what follows the closing brace, and how far behind it the next '*' or the NUL is
SkipRests ==
    { [text |-> END, next |-> 1],
      [text |-> NL \o RB \o NL \o END, next |-> 4],
      [text |-> NL \o Unknown \o NL \o RB \o NL \o END, next |-> 2] }
SkipCases == BalancedPieces \X SkipRests
ClosedTextOf == [c \in SkipCases |-> c[1] \o RB \o c[2].text]
OpenTextOf == [t \in OpenPieces |-> t \o END]
SkipTexts == { ClosedTextOf[c] : c \in SkipCases } \cup { OpenTextOf[t] : t \in OpenPieces }

-----------------------------------------------------------------------------
(* UV lists of two entries with third components (w) 0 or 3, the entries   *)
(* on consecutive lines or with a line between them.                       *)

TVertCases == {0, 3} \X {0, 3} \X BOOLEAN
TVertFileOf ==
    [c \in TVertCases |->
        MeshFile(Count("*MESH_NUMTVERTEX", 2)
                 \o Line(<<Unknown>>)
                 \o Block("*MESH_TVERTLIST",
                          Entry("*MESH_TVERT", 0, <<1, 2, c[1]>>)
                          \o (IF c[3] THEN Line(<<Unknown>>) ELSE <<>>)
                          \o Entry("*MESH_TVERT", 1, <<1, 2, c[2]>>)
                          \o Line(<<Unknown>>)))
        \o END]
TVertFiles == { TVertFileOf[c] : c \in TVertCases }

-----------------------------------------------------------------------------
(* A longer keyword in a block whose table holds a prefix of it.           *)

PrefixFileOf ==
    ("*MESH" :> Block("*GEOMOBJECT", Count("*MESH_NUMVERTEX", 1) \o Line(<<Unknown>>)) \o END)
    @@ ("*MATERIAL" :>
        Block("*MATERIAL_LIST", Count("*MATERIAL_COUNT", 1) \o Line(<<Unknown>>)) \o END)
    @@ ("*MESH_VERTEX" :>
        MeshFile(Count("*MESH_NUMVERTEX", 1)
                 \o Line(<<Unknown>>)
                 \o Block("*MESH_VERTEX_LIST",
                          Line(<<Unknown>>)
                          \o Entry("*MESH_VERTEX_LIST", 0, <<1, 2, 3>>)
                          \o Line(<<Unknown>>))) \o END)
    @@ ("*MESH_FACE" :>
        MeshFile(Count("*MESH_NUMFACES", 1)
                 \o Line(<<Unknown>>)
                 \o Block("*MESH_FACE_LIST",
                          Line(<<Unknown>>)
                          \o Line(<<Kw("*MESH_FACE_LIST"), Dec(0),
                                    <<":", " ", "A", ":", " ">>, Dec(1),
                                    <<" ", "B", ":", " ">>, Dec(2),
                                    <<" ", "C", ":", " ">>, Dec(3)>>)
                          \o Line(<<Unknown>>))) \o END)
PrefixFiles == { PrefixFileOf[k] : k \in DOMAIN PrefixFileOf }

-----------------------------------------------------------------------------
(* Lists of declared count 1 with the entry of index 0 and then the entry  *)
(* keyword alone on its line: followed by a space, or by the line end.     *)

BareEntryCases == ListKinds \X BOOLEAN
BareEntryFileOf ==
    [c \in BareEntryCases |->
        MeshFile(Count(c[1].count, 1)
                 \o Line(<<Unknown>>)
                 \o Block(c[1].list,
                          Entry(c[1].entry, 0, <<1, 2, 3>>)
                          \o Line(<<Unknown>>)
                          \o Line(<<IF c[2] THEN Kw(c[1].entry) ELSE Lit[c[1].entry]>>)
                          \o Line(<<Unknown>>)))
        \o END]
BareEntryFiles == { BareEntryFileOf[c] : c \in BareEntryCases }

-----------------------------------------------------------------------------
(* A corpus that takes the parser through every block kind, the same texts *)
(* cut off after each of their lines, and quoted strings that do not end.  *)

SceneText ==
    VersionLine
    \o Line(<<Unknown>>)
    \o Block("*SCENE",
             Line(<<Kw("*SCENE_BACKGROUND_STATIC"), Dec(1), SP, Dec(2), SP, Dec(3)>>)
             \o Line(<<Kw("*SCENE_AMBIENT_STATIC"), Dec(4), SP, Dec(5), SP, Dec(6)>>))

MaterialText ==
    Block("*MATERIAL_LIST",
          Count("*MATERIAL_COUNT", 1)
          \o Line(<<Unknown>>)
          \o Line(<<Kw("*MATERIAL"), Dec(0), SP, LB>>)
          \o Line(<<Kw("*MATERIAL_SHADING"), Lit["Phong"]>>)
          \o Count("*NUMSUBMTLS", 1)
          \o Line(<<Unknown>>)
          \o Line(<<Kw("*SUBMATERIAL"), Dec(0), SP, LB>>)
          \o Line(<<Kw("*MATERIAL_NAME"), <<"s">>>>)
          \o Line(<<RB>>)
          \o Line(<<RB>>))

MapText ==
    Block("*MATERIAL_LIST",
          Count("*MATERIAL_COUNT", 1)
          \o Line(<<Unknown>>)
          \o Line(<<Kw("*MATERIAL"), Dec(0), SP, LB>>)
          \o Block("*MAP_DIFFUSE",
                   Line(<<Kw("*BITMAP"), QT, <<"a", " ", "b">>, QT>>)
                   \o Count("*UVW_U_OFFSET", 2))
          \o Line(<<RB>>))

NodeText ==
    Block("*GEOMOBJECT",
          Line(<<Kw("*NODE_NAME"), QT, <<"B", "o", "x">>, QT>>)
          \o Block("*NODE_TM",
                   Line(<<Kw("*TM_ROW0"), Dec(1), SP, Dec(0), SP, Dec(0)>>)
                   \o Line(<<Kw("*TM_ROW1"), Dec(0), SP, Dec(1), SP, Dec(0)>>)))

\* a mesh with one list; the declared count is followed by an unknown keyword line
ListText(countKw, listKw, entryKw) ==
    MeshFile(Count(countKw, 1)
             \o Line(<<Unknown>>)
             \o Block(listKw, Entry(entryKw, 0, <<1, 2, 3>>)))

CorpusTexts ==
    { SceneText, MaterialText, MapText, NodeText,
      ListText("*MESH_NUMVERTEX", "*MESH_VERTEX_LIST", "*MESH_VERTEX"),
      ListText("*MESH_NUMCVERTEX", "*MESH_CVERTLIST", "*MESH_VERTCOL"),
      ListText("*MESH_NUMTVFACES", "*MESH_TFACELIST", "*MESH_TFACE"),
      ListText("*MESH_NUMCVFACES", "*MESH_CFACELIST", "*MESH_CFACE"),
      MeshFile(Channel(2, 0) \o Count("*MATERIAL_REF", 1)) }
    \cup MaterialCountZeroTexts

Corpus == { t \o END : t \in CorpusTexts }

\* a text cut off after each of its lines
LineCuts(t) == { SubSeq(t, 1, k) \o END : k \in { j \in 1..(Len(t) - 1) : t[j] = "\n" } }
TruncatedFiles == UNION { LineCuts(t) : t \in CorpusTexts }

\* a text cut off inside its quoted string: after the opening quote and one character
QuoteCut(t) ==
    LET q == CHOOSE j \in 1..Len(t) : t[j] = "\"" /\ \A i \in 1..(j - 1) : t[i] # "\"" IN
    SubSeq(t, 1, q + 1)
UnterminatedQuoteFiles ==
    { QuoteCut(t) \o rest \o END : t \in {MapText, NodeText}, rest \in {<<>>, NL \o RB \o NL} }

AllFiles ==
    Corpus \cup WellFormedFiles \cup BraceFiles \cup ListFiles \cup OutOfRangeFiles
    \cup ChannelFiles \cup FaceFiles \cup TruncatedFiles \cup UnterminatedQuoteFiles
    \cup FatalFiles \cup RecoverableFiles \cup ObjectsFiles \cup KeywordLastFiles
    \cup ShineFiles \cup {EmptyExportFile} \cup QuotedFiles
    \cup VersionFiles \cup KeywordAfterValueFiles \cup IndexFaceFiles
    \cup MissingBraceFiles \cup IndexFiles \cup UnknownBlockFiles \cup ShortValueFiles
    \cup TVertFiles \cup PrefixFiles \cup BareEntryFiles

Init == \E text \in AllFiles : InitWith(text)

Spec == Init /\ [][Next]_vars

\* SkipSection called with the cursor at the start of the text, just behind a '{'
SkipSectionInit ==
    \E text \in SkipTexts :
        /\ input = text
        /\ m_szFile = 1
        /\ iLineNumber = 0
        /\ stack = <<Frame("SkipSection", [ok |-> FALSE], <<>>, 0)>>
        /\ m_vMeshes = <<>>
        /\ m_vMaterials = <<>>
        /\ m_clrBackground = <<NaN, 0, 0>>
        /\ m_clrAmbient = <<NaN, 0, 0>>
        /\ warnings = <<>>
        /\ status = "running"
        /\ error = <<>>
        /\ ub = ""
        /\ lastReturn = NoReturn

\* the call runs to its return: the cursor, the line counter, the warning and the
\* returned flag (kept in the frame)
SkipSectionCall ==
    /\ Running
    /\ Top.fn = "SkipSection"
    /\ Top.pc = "head"
    /\ LET r == SkipSection(m_szFile, iLineNumber) IN
       /\ m_szFile' = r.p
       /\ iLineNumber' = r.line
       /\ warnings' = warnings \o r.warn
       /\ stack' = <<[Top EXCEPT !.pc = "returned", !.loc = [ok |-> r.ok]]>>
    /\ UNCHANGED <<input, m_vMeshes, m_vMaterials, m_clrBackground, m_clrAmbient,
                   status, error, ub, lastReturn>>

SkipSectionNext == SkipSectionCall

SkipSectionSpec == SkipSectionInit /\ [][SkipSectionNext]_vars

\* ParseLV3MeshNormalListBlock entered on a mesh of k positions: the normals have been
\* resized to k (sMesh.mNormals.resize(sMesh.mPositions.size()))
NormalListInitWith(text, k) ==
    /\ input = text
    /\ m_szFile = 1
    /\ iLineNumber = 0
    /\ stack = <<Frame("ParseLV3MeshNormalListBlock", <<>>, <<>>, 0)>>
    /\ m_vMeshes = <<[DefaultMesh EXCEPT !.mPositions = Resize(<<>>, k, Vec0),
                                         !.mNormals = Resize(<<>>, k, Vec0)]>>
    /\ m_vMaterials = <<>>
    /\ m_clrBackground = <<NaN, 0, 0>>
    /\ m_clrAmbient = <<NaN, 0, 0>>
    /\ warnings = <<>>
    /\ status = "running"
    /\ error = <<>>
    /\ ub = ""
    /\ lastReturn = NoReturn

NormalListInit == \E text \in NormalFiles : \E k \in 0..MaxCount : NormalListInitWith(text, k)

NormalListNext ==
    \/ ParseLV3MeshNormalListBlock
    \/ UndefinedBehaviour

NormalListSpec == NormalListInit /\ [][NormalListNext]_vars

-----------------------------------------------------------------------------
(* Properties.                                                             *)

Ended == status # "running"
Returned == lastReturn.fn # ""

\* the text t never closes a brace it has not opened and leaves none open
Balanced(t) ==
    LET Opens(q) == Cardinality({j \in 1..q : t[j] = "{"})
        Closes(q) == Cardinality({j \in 1..q : t[j] = "}"}) IN
    /\ \A q \in {j \in 1..Len(t) : t[j] = "}"} : Closes(q) <= Opens(q)
    /\ Opens(Len(t)) = Closes(Len(t))
BalancedFiles == { t \in AllFiles : Balanced(t) }

\* the position of the '}' that closes the '{' at position open of the input (0: none)
MatchClose(open) ==
    LET IsOpen == {"{"}
        IsClose == {"}"}
        ends == {q \in (open + 1)..Len(input) :
                    /\ C(q) = "}"
                    /\ CountIn(open + 1, q - 1, IsOpen) = CountIn(open + 1, q - 1, IsClose)} IN
    IF ends = {} THEN 0 ELSE CHOOSE e \in ends : \A o \in ends : e <= o

\* C1: on an input with balanced braces, a nested block parser that was called on a
\* '{' returns to its caller at the '}' that matches it, not earlier and not later.
C1_BlockReturnsAtMatchingBrace ==
    (Returned /\ lastReturn.open # 0 /\ input \in BalancedFiles)
        => lastReturn.close = MatchClose(lastReturn.open)

\* C2: a well-formed file with one material and one geometry object whose mesh
\* declares N vertices and M faces and lists them parses to exactly one mesh with N
\* positions and M faces, and exactly one material.
C2_WellFormedFileYieldsOneMesh ==
    \A c \in WellFormedCases :
        (input = WellFormed[c] /\ Ended)
            => /\ status = "done"
               /\ Len(m_vMaterials) = 1
               /\ Len(m_vMeshes) = 1
               /\ Len(m_vMeshes[1].mPositions) = c[1]
               /\ Len(m_vMeshes[1].mFaces) = c[2]

\* C3: after a vertex, UV-vertex or vertex-colour list of declared count n is parsed,
\* slot i holds the triple of the entry of index i, whatever the order of the entry
\* lines in the file.
C3_ListEntriesLandInTheirSlots ==
    \A c \in ListCases :
        (input = ListFileOf[c] /\ Ended)
            => /\ Len(m_vMeshes) = 1
               /\ ListArray(c[1], m_vMeshes[1]) = <<Triple(0), Triple(1)>>

OutOfBoundsAccesses ==
    { "m_vMaterials[iIndex] out of bounds", "avSubMaterials[iIndex] out of bounds",
      "amTexCoords[iChannel] out of bounds", "amUVIndices[iChannel] out of bounds" }

\* C4: every indexed access to a pre-sized array uses an index below the array's
\* length, for every declared count (0 included) and every mapping-channel index.
C4_IndexedWritesAreInBounds == ub \notin OutOfBoundsAccesses

InvalidChannelWarnings ==
    { k \in 1..Len(warnings) : warnings[k].msg = "Mapping channel has an invalid index" }

\* C5: a mapping channel of index 0 or 1 logs a warning and changes no UV array of the
\* mesh, neither by its sub-block nor by what follows it; a mapping channel of an
\* in-range index N fills UV channel N-1 and no other.
C5_MappingChannelIndexSelectsChannel ==
    /\ \A i \in {0, 1} :
        /\ input \in {ChannelFileOf[i], TwoChannelFileOf[i]} => ub = ""
        /\ (input = ChannelFileOf[i] /\ Ended)
             => /\ InvalidChannelWarnings # {}
                /\ m_vMeshes[1].amTexCoords = DefaultMesh.amTexCoords
        /\ (input = TwoChannelFileOf[i] /\ Ended)
             => /\ InvalidChannelWarnings # {}
                /\ m_vMeshes[1].amTexCoords =
                      [DefaultMesh.amTexCoords EXCEPT ![1] = <<Triple(1)>>]
    /\ \A N \in 2..AI_MAX_NUMBER_OF_TEXTURECOORDS :
        (input = ChannelFileOf[N] /\ Ended)
            => m_vMeshes[1].amTexCoords =
                  [DefaultMesh.amTexCoords EXCEPT ![N - 1] = <<Triple(0)>>]

InvalidIndexWarnings ==
    { k \in 1..Len(warnings) :
        warnings[k].msg \in { "Vertex has an invalid index", "Tvertex has an invalid index",
                              "Vertex color has an invalid index",
                              "Face has an invalid index" } }

\* the array a list of the out-of-range texts fills
OutOfRangeArray(kind, m) ==
    IF kind.entry = "*MESH_FACE" THEN [k \in 1..Len(m.mFaces) |-> m.mFaces[k].mIndices]
    ELSE ListArray(kind, m)

\* C6: a list entry whose index is at or above the declared count is dropped with
\* exactly one warning, the array keeps its length and its values, no fatal error is
\* raised and the parse ends successfully.
C6_OutOfRangeEntryIsDropped ==
    \A c \in OutOfRangeCases :
        (input = OutOfRangeFileOf[c] /\ Ended)
            => /\ status = "done"
               /\ Cardinality(InvalidIndexWarnings) = 1
               /\ OutOfRangeArray(c[1], m_vMeshes[1])
                     = <<IF c[2] THEN Triple(0) ELSE Vec0>>

\* the face-list parser has just handled a record
FaceRecordParsed ==
    /\ status = "running"
    /\ stack # <<>>
    /\ Top.fn = "ParseLV3MeshFaceListBlock"
    /\ Top.pc = "tail"

\* C7: a face record "i: L1: x L2: y L3: z" with the labels A, B, C in any order and
\* either letter case is stored as face i with the vertex indices [value labelled A,
\* value labelled B, value labelled C]; no other face is touched.
C7_FaceLabelsInAnyOrder ==
    \A c \in LabelCases :
        (input = LabelFileOf[c] /\ (FaceRecordParsed \/ Ended))
            => /\ Len(m_vMeshes) = 1
               /\ Len(m_vMeshes[1].mFaces) = MaxCount
               /\ m_vMeshes[1].mFaces[c[1] + 1].iFace = c[1]
               /\ m_vMeshes[1].mFaces[c[1] + 1].mIndices = LabelValue
               /\ \A j \in 1..MaxCount : j # c[1] + 1 => m_vMeshes[1].mFaces[j] = DefaultFace
               /\ FaceRecordParsed => (error = <<>> /\ ub = "")

\* a record with the labels in the order c, a, b in lower case has been stored as face 1
C7_Witness ==
    /\ input = LabelFileOf[<<1, <<3, 1, 2>>, Lower>>]
    /\ FaceRecordParsed
    /\ m_vMeshes[1].mFaces[2].mIndices = LabelValue

\* C8: a face record with "*MESH_SMOOTHING g0,..,gk" (each g in 0..31) and/or
\* "*MESH_MTLID m" after its vertex references is stored with the smoothing mask that
\* has exactly the bits g0..gk set, whatever their order, and the material id m; an
\* absent clause leaves its field at the default (no bit, id 0) and raises no error.
C8_SmoothingAndMaterialClauses ==
    \A c \in ClauseCases :
        (input = ClauseFileOf[c] /\ (FaceRecordParsed \/ Ended))
            => /\ Len(m_vMeshes) = 1
               /\ m_vMeshes[1].mFaces[1].mIndices = LabelValue
               /\ m_vMeshes[1].mFaces[1].iSmoothGroup = { c[1][k] : k \in 1..Len(c[1]) }
               /\ m_vMeshes[1].mFaces[1].iMaterial = (IF c[2] = <<>> THEN 0 ELSE c[2][1])
               /\ FaceRecordParsed => (error = <<>> /\ ub = "")

\* a record with the groups 31,5,0 and the material id 2 has been stored
C8_Witness ==
    /\ input = ClauseFileOf[<<<<31, 5, 0>>, <<2>>, TRUE>>]
    /\ FaceRecordParsed
    /\ m_vMeshes[1].mFaces[1].iSmoothGroup = {0, 5, 31}
    /\ m_vMeshes[1].mFaces[1].iMaterial = 2

\* C9: a *BITMAP path or *NODE_NAME name that opens with a double quote which the
\* input never closes ends the parse with a fatal error.
C9_UnterminatedQuoteIsFatal ==
    (input \in UnterminatedQuoteFiles /\ Ended) => status = "fatal"

\* the block parser on top of the stack is at the end of the input
AtEndOfInput == Running /\ Top.pc = "tail" /\ C(m_szFile) = NUL

EofTolerantBlocks ==
    { "Parse", "ParseLV1SceneBlock", "ParseLV1MaterialListBlock",
      "ParseLV1GeometryObjectBlock" }

\* C10 (as the code has it): a block parser whose loop reaches the end of the input
\* returns normally to its caller if it is the top level, the scene, the material-list
\* or the geometry-object parser, and raises a fatal error if it is any other.
C10_EndOfInputPolicy ==
    [][AtEndOfInput =>
        IF Top.fn \in EofTolerantBlocks
        THEN /\ stack' = SubSeq(stack, 1, Len(stack) - 1)
             /\ status' # "fatal"
             /\ lastReturn' = [fn |-> Top.fn, open |-> Top.open, close |-> 0]
        ELSE status' = "fatal" /\ stack' = <<>>]_vars

\* the scene parser has returned at the end of the input and the parse goes on
C10_Witness ==
    /\ lastReturn.fn = "ParseLV1SceneBlock"
    /\ lastReturn.close = 0
    /\ status # "fatal"

\* C10 (as stated): only the top level and the geometry-object parser return normally
\* at the end of the input.
C10_OnlyTopLevelAndGeometryObjectTolerateEof ==
    (Returned /\ lastReturn.close = 0)
        => lastReturn.fn \in {"Parse", "ParseLV1GeometryObjectBlock"}

\* the messages of the fatal errors at the end of the input, one per block parser
EofMessages ==
    { "Unable to finish parsing a lv2 material block. Unexpected EOF",
      "Unable to finish parsing a lv3 map block. Unexpected EOF",
      "Unable to finish parsing a lv2 node transform block. Unexpected EOF",
      "Unable to finish parsing a lv2 mesh block. Unexpected EOF",
      "Unable to finish parsing a lv3 vertex list block. Unexpected EOF",
      "Unable to finish parsing LV3 *MESH_FACE_LIST block. Unexpected EOF",
      "Unable to finish parsing LV3 *MESH_VERTEX_LIST block. Unexpected EOF",
      "Unable to finish parsing LV3 *MESH_TFACELIST block. Unexpected EOF",
      "Unable to finish parsing a LV3 *MESH_MAPPINGCHANNEL block. Unexpected EOF",
      "Unable to finish parsing LV3 *MESH_CVERTLIST block. Unexpected EOF",
      "Unable to finish parsing LV3 *MESH_CFACELIST block. Unexpected EOF" }

\* a string value that is missing or does not open with a double quote
StringMessages ==
    { "*MATERIAL_NAME: Unexpected EOL", "*BITMAP: Unexpected EOL",
      "*BITMAP: double quotation marks expected", "*NODE_NAME: Unexpected EOL",
      "*NODE_NAME: double quotation marks expected" }

\* a face record that breaks off or has a wrong character
FaceMessages ==
    { "*MESH_FACE: Unexpected EOL [#1]", "*MESH_FACE: ':' expected [#2]",
      "*MESH_FACE: A,B or C expected [#3]", "*MESH_FACE: Vertex index expected [#4]",
      "*MESH_SMOOTHING: Smoothing group(s) expected [#5]",
      "*MESH_MTLID: Material index expected [#6]" }

\* the parser itself has raised the fatal error (LogError)
FatalRaised == status = "fatal" /\ ub = ""

\* C11 (as stated): a fatal error is raised only at the end of the input inside a
\* block, for a quoted string that is not closed, or for a face-vertex label other
\* than A, B, C; every other malformation leaves the parse to complete.
C11_FatalOnlyInThreeSituations ==
    /\ FatalRaised =>
          error[1].msg \in EofMessages \cup {"*MESH_FACE: A,B or C expected [#3]",
                                             "closing quotation mark expected"}
    /\ (input \in RecoverableFiles /\ Ended) => status = "done"

\* C11 (as the code has it): the parser raises a fatal error only at the end of the
\* input inside a block other than the top level, scene, material list and geometry
\* object, for a *MATERIAL_NAME, *BITMAP or *NODE_NAME value that is missing or (the
\* last two) does not open with a double quote, and for a face record that breaks off
\* or has a wrong character; a missing opening brace, an out-of-range list index, a
\* value missing at a line end or the end of the input, an unsupported
\* mapping-channel index and an unknown shading mode raise no fatal error themselves:
\* a parse of such a text can only fail at the end of the input.
C11_FatalSituations ==
    /\ FatalRaised => error[1].msg \in EofMessages \cup StringMessages \cup FaceMessages
    /\ (input \in RecoverableFiles /\ FatalRaised) => error[1].msg \in EofMessages

\* a material name that is missing has ended the parse with a fatal error
C11_Witness ==
    /\ input = FatalFileOf["*MATERIAL_NAME"]
    /\ FatalRaised
    /\ error[1].msg = "*MATERIAL_NAME: Unexpected EOL"

\* C12: a failed parse has raised exactly one fatal error, which carries the line
\* number, has unwound every block parser and leaves no scene to the caller; a parse
\* that raised none (it only logged warnings, or nothing) ends by handing the scene
\* to the caller.
C12_OneFatalErrorOrAScene ==
    /\ status = "fatal" => (Len(error) = 1 /\ error[1].line = iLineNumber /\ stack = <<>>)
    /\ status = "done" => error = <<>>
    /\ (Ended /\ error = <<>>) => status = "done"

\* C13: after a successful parse the scene has one mesh for each top-level
\* *GEOMOBJECT block of the file, in the order of the file.
C13_OneMeshPerGeometryObject ==
    \A n \in 1..MaxCount :
        (input = ObjectsFileOf[n] /\ status = "done")
            => /\ Len(m_vMeshes) = n
               /\ \A k \in 1..n : m_vMeshes[k].mName = <<ObjectNames[k]>>

\* C14: the cursor never moves beyond the terminating NUL of the input and no
\* character behind it is read, also when a keyword is the last token of the input
\* and when a quoted string is not closed.
C14_CursorStaysWithinInput ==
    /\ m_szFile <= Len(input)
    /\ ub # "read past the sentinel"

\* C15: a material block with "*MATERIAL_TRANSPARENCY t" and "*MATERIAL_SHINE s", in
\* either order and whatever stands between them, ends with the transparency 1 - t
\* and the specular exponent 15 * s.
C15_TransparencyAndShine ==
    \A c \in ShineCases :
        (input = ShineFileOf[c] /\ Ended)
            => /\ Len(m_vMaterials) = 1
               /\ m_vMaterials[1].mTransparency = 1 - ShineValues.t
               /\ m_vMaterials[1].mSpecularExponent = 15 * ShineValues.s

\* the text t contains the keyword l
Contains(t, l) ==
    \E p \in 1..(Len(t) - Len(Lit[l]) + 1) : SubSeq(t, p, p + Len(Lit[l]) - 1) = Lit[l]
\* the texts with neither a material list nor a geometry object
NoObjectFiles ==
    { t \in AllFiles : ~Contains(t, "*MATERIAL_LIST") /\ ~Contains(t, "*GEOMOBJECT") }

\* C16: the parse of "*3DSMAX_ASCIIEXPORT 200 { }", and of any text without a
\* *MATERIAL_LIST and without a *GEOMOBJECT keyword, ends without a fatal error, with
\* no mesh and no material.
C16_NoObjectsNoScene ==
    (input \in NoObjectFiles /\ Ended)
        => (status = "done" /\ m_vMeshes = <<>> /\ m_vMaterials = <<>>)

\* C17: a *BITMAP path or *NODE_NAME name between two double quotes is stored as
\* exactly the characters between the quotes, raises no error, and the enclosing block
\* is parsed on behind the closing quote: the keyword of the next line is dispatched.
C17_QuotedStringIsStoredAsDelimited ==
    \A s \in StringValues :
        /\ input \in {BitmapFileOf[s], NodeNameFileOf[s]}
              => (ub = "" /\ (error # <<>> => error[1].msg \in EofMessages))
        /\ (input = BitmapFileOf[s] /\ Ended)
              => /\ m_vMaterials[1].sTexDiffuse.mMapName = s
                 /\ m_vMaterials[1].sTexDiffuse.mOffsetU = 2
        /\ (input = NodeNameFileOf[s] /\ Ended)
              => /\ m_vMeshes[1].mName = s
                 /\ m_vMeshes[1].mTransform[1] = <<1, 2, 3>>

\* the path "a b" has been stored and the parse has gone on to its end
C17_Witness ==
    /\ input = BitmapFileOf[<<"a", " ", "b">>]
    /\ Ended
    /\ m_vMaterials[1].sTexDiffuse.mMapName = <<"a", " ", "b">>
    /\ m_vMaterials[1].sTexDiffuse.mOffsetU = 2

\* C18: whatever version number v follows *3DSMAX_ASCIIEXPORT, the parse does not fail
\* because of it: v # 200 logs exactly one warning, v = 200 logs none, and the scene
\* parsed from the rest of the file is the same for every v.
VersionWarning == W(0, "Unknown file format version")
C18_VersionOnlyWarns ==
    \A v \in Versions : \A r \in VersionRests :
        input = VersionFileOf[v][r]
            => /\ error = <<>> /\ ub = "" /\ status \in {"running", "done"}
               /\ m_szFile > 1
                     => warnings = IF v = 200 THEN <<>> ELSE <<VersionWarning>>
               /\ Ended
                     => /\ status = "done"
                        /\ m_vMeshes = VersionSceneOf[r].meshes
                        /\ m_vMaterials = VersionSceneOf[r].materials
                        /\ iLineNumber = VersionSceneOf[r].line

\* version 3 before a geometry object: one warning, and the object is in the scene
C18_Witness ==
    /\ input = VersionFileOf[3]["object"]
    /\ status = "done"
    /\ warnings = <<VersionWarning>>
    /\ Len(m_vMeshes) = 1
    /\ m_vMeshes[1].mName = <<"B", "o", "x">>

\* C19: every keyword of a block's dispatch table that stands at the block's own level
\* is dispatched, also when it directly follows the value of the keyword before it:
\* the loop of a block parser never steps over the '*' of one of its own keywords.
DispatchTableOf ==
    ("Parse" :> ParseTable)
    @@ ("ParseLV1SceneBlock" :> SceneTable)
    @@ ("ParseLV1MaterialListBlock" :> MaterialListTable)
    @@ ("ParseLV2MaterialBlock" :> MaterialTable)
    @@ ("ParseLV3MapBlock" :> MapTable)
    @@ ("ParseLV1GeometryObjectBlock" :> GeometryObjectTable)
    @@ ("ParseLV2NodeTransformBlock" :> NodeTransformTable)
    @@ ("ParseLV2MeshBlock" :> MeshTable)
    @@ ("ParseLV3MeshVertexListBlock" :> VertexListTable)
    @@ ("ParseLV3MeshFaceListBlock" :> FaceListTable)
    @@ ("ParseLV3MeshTListBlock" :> TListTable)
    @@ ("ParseLV3MeshTFaceListBlock" :> TFaceListTable)
    @@ ("ParseLV3MappingChannel" :> MappingChannelTable)
    @@ ("ParseLV3MeshCListBlock" :> CListTable)
    @@ ("ParseLV3MeshCFaceListBlock" :> CFaceListTable)
\* the loop is about to advance the cursor, which stands on a keyword of the block
KeywordSteppedOver ==
    /\ status = "running"
    /\ stack # <<>>
    /\ Top.pc = "tail"
    /\ m_szFile <= Len(input)
    /\ Match(m_szFile, DispatchTableOf[Top.fn]) # 0
C19_EveryKeywordIsDispatched ==
    input \in KeywordAfterValueFiles => ~KeywordSteppedOver

\* C20: an entry "i a b c" of a UV-face list (colour-face list) whose index i is below
\* the declared count and the length of the face array puts (a, b, c) in the UV-index
\* slots of channel 0 (the colour-index slots) of face i; an entry whose index is out
\* of either bound is dropped with a warning.
IndexSlots(k, face) ==
    IF k.entry = "*MESH_TFACE" THEN face.amUVIndices[0] ELSE face.mColorIndices
C20_FaceIndexEntries ==
    \A k \in IndexFaceKinds :
        /\ (input = IndexFaceFileOf[k] /\ Ended)
              => /\ Len(m_vMeshes) = 1
                 /\ Len(m_vMeshes[1].mFaces) = 1
                 /\ IndexSlots(k, m_vMeshes[1].mFaces[1]) = <<4, 5, 6>>
        /\ (input = NoFaceFileOf[k] /\ Ended)
              => /\ \E i \in 1..Len(warnings) : warnings[i].msg = "UV-Face has an invalid index"
                 /\ m_vMeshes[1].mFaces = <<>>

\* C21: when a keyword that opens a sub-block through SkipOpeningBracket is not followed
\* by '{', a warning is logged, no fatal error is raised by it, and the keywords that
\* follow are handled by the enclosing block: the *MATERIAL_REF of the mesh is stored.
BraceWarnings == { i \in 1..Len(warnings) : warnings[i].msg = "'{' expected" }
C21_MissingBraceLeavesBlockEmpty ==
    \A c \in MissingBraceCases :
        (input = MissingBraceFileOf[c] /\ Ended)
            => /\ Cardinality(BraceWarnings) = 1
               /\ m_vMeshes[1].iMaterialIndex = 1

\* C22: with n >= 1 materials (sub-materials) declared, an entry with index i >= n logs
\* one warning and is parsed into slot n-1, an entry with i < n logs none and is parsed
\* into slot i, and no other slot is changed, at any depth of sub-materials.
TooLargeWarnings ==
    { i \in 1..Len(warnings) :
        warnings[i].msg \in {"material index is too large", "submaterial index is too large"} }
C22_SlotSelected ==
    \A c \in IndexCases :
        (input = IndexFileOf[c] /\ Ended)
            => /\ status = "done"
               /\ Len(IndexSiblings(c)) = c[2]
               /\ IndexSiblings(c)[IndexSlot(c)].mSpecularExponent = 30
               /\ \A j \in 1..c[2] : j # IndexSlot(c) => IndexSiblings(c)[j] = DefaultMaterial
               /\ Cardinality(TooLargeWarnings) = IF c[3] >= c[2] THEN 1 ELSE 0
\* C22, with the warnings counted: an entry with i >= n logs one warning, one with
\* i < n logs none
C22_IndexSelectsSlot ==
    /\ C22_SlotSelected
    /\ \A c \in IndexCases :
          (input = IndexFileOf[c] /\ c[1] = 0 /\ Ended)
              => Len(warnings) = IF c[3] >= c[2] THEN 1 ELSE 0

\* C23: a block behind a keyword the current block parser does not know is skipped as a
\* whole: the keywords inside it are not dispatched, also when they are keywords of the
\* current table, and the scene is not changed by its content.
C23_UnknownBlockIsSkipped ==
    /\ input = UnknownBlockFileOf["top"] => m_vMeshes = <<>>
    /\ (input = UnknownBlockFileOf["object"] /\ Len(m_vMeshes) > 0)
          => m_vMeshes[1].mName \in {<<>>, <<"a">>}

\* C24: a float-triple or integer-triple parser that meets the end of the line or of the
\* input before component k logs one warning, sets component k and the later ones to
\* zero, keeps the components it has parsed and leaves the cursor on the line end; the
\* parse goes on without a fatal error.  The single-value parsers yield 0 likewise.
ShortTripleResult(r, j) ==
    /\ r.v = ShortValuePadded(j)
    /\ Len(r.warn) = IF j < 3 THEN 1 ELSE 0
    /\ j < 3 => r.p = ScanTo(ShortValueAt, LineEndChars)
ShortIndexedResult(r, j) ==
    /\ r.idx = IF j = 0 THEN 0 ELSE ShortValues[1]
    /\ r.v = ShortValueBehindIndex(j)
    /\ Len(r.warn) = 1
    /\ r.p = ScanTo(ShortValueAt, LineEndChars)
ShortSingleResult(r, j) ==
    /\ r.v = IF j = 0 THEN 0 ELSE ShortValues[1]
    /\ Len(r.warn) = IF j = 0 THEN 1 ELSE 0
    /\ j = 0 => r.p = ScanTo(ShortValueAt, LineEndChars)
C24_ShortValueLineYieldsZeros ==
    \A c \in ShortValueCases :
        input = ShortValueFileOf[c]
            => /\ ShortTripleResult(ParseLV4MeshFloatTriple(ShortValueAt, 0), c[1])
               /\ ShortTripleResult(ParseLV4MeshLongTriple(ShortValueAt, 0), c[1])
               /\ ShortIndexedResult(ParseLV4MeshFloatTripleIdx(ShortValueAt, 0), c[1])
               /\ ShortIndexedResult(ParseLV4MeshLongTripleIdx(ShortValueAt, 0), c[1])
               /\ ShortSingleResult(ParseLV4MeshFloat(ShortValueAt, 0), c[1])
               /\ ShortSingleResult(ParseLV4MeshLong(ShortValueAt, 0), c[1])
               /\ error = <<>> /\ ub = ""
               /\ m_szFile > ShortValueAt
                     => /\ m_clrBackground = ShortValuePadded(c[1])
                        /\ Len(warnings) = IF c[1] < 3 THEN 1 ELSE 0
               /\ Ended => status = "done"

\* the background colour line "4 5" has been parsed: (4, 5, 0) and one warning
C24_Witness ==
    /\ input = ShortValueFileOf[<<2, "line">>]
    /\ status = "done"
    /\ m_clrBackground = <<4, 5, 0>>
    /\ Len(warnings) = 1
    /\ warnings[1].msg = "float triple: unexpected EOL [#7]"

\* C25: in the normal list the normals are sized to the number of positions; an entry
\* with an index below that size is stored in its slot, an entry with an index at or
\* above it logs a warning and is stored in the last slot.
NormalSize == Len(m_vMeshes[1].mPositions)
C25_NormalEntryIsStoredOrClamped ==
    \A i \in NormalIndices :
        (input = NormalFileOf[i] /\ Ended)
            => /\ ub = ""
               /\ Len(m_vMeshes[1].mNormals) = NormalSize
               /\ i < NormalSize
                     => /\ m_vMeshes[1].mNormals[i + 1] = NormalValues
                        /\ warnings = <<>>
               /\ i >= NormalSize
                     => /\ m_vMeshes[1].mNormals[NormalSize] = NormalValues
                        /\ Len(warnings) = 1

\* C26: SkipSection, started just behind an opening brace, stops when the closing brace
\* that matches it has been consumed, whatever balanced braces lie between, then moves
\* on to the next '*' or to the end of the input and returns true without changing the
\* scene; when the input ends before that brace it logs one warning and returns false,
\* and no fatal error is raised.
SkipSectionReturned == stack # <<>> /\ Top.fn = "SkipSection" /\ Top.pc = "returned"
C26_SkipSectionStopsAtMatchingBrace ==
    SkipSectionReturned
        => /\ \A c \in SkipCases :
                 input = ClosedTextOf[c]
                     => /\ Top.loc.ok
                        /\ m_szFile = Len(c[1]) + 1 + c[2].next
                        /\ C(m_szFile) \in {"*", NUL}
                        /\ warnings = <<>>
           /\ \A t \in OpenPieces :
                 input = OpenTextOf[t]
                     => /\ ~Top.loc.ok
                        /\ m_szFile = Len(input)
                        /\ Len(warnings) = 1
           /\ m_vMeshes = <<>> /\ m_vMaterials = <<>>
           /\ error = <<>> /\ status = "running" /\ ub = ""

\* a section with a nested block has been skipped up to the keyword behind it
C26_Witness ==
    /\ SkipSectionReturned
    /\ input = <<"{", "a", "}", "}", "\n">> \o Unknown \o <<"\n", "}", "\n", NUL>>
    /\ Top.loc.ok
    /\ m_szFile = 6

\* C27: after the UV list of a channel has been parsed, the component count of the
\* channel is 3 if some *MESH_TVERT entry of the list has a third component other than
\* 0, and 2 otherwise; the counts of the other channels are unchanged.
C27_ComponentCountFollowsEntries ==
    \A c \in TVertCases :
        (input = TVertFileOf[c] /\ Ended)
            => /\ m_vMeshes[1].mNumUVComponents[0] = IF c[1] # 0 \/ c[2] # 0 THEN 3 ELSE 2
               /\ \A ch \in ChannelIds \ {0} : m_vMeshes[1].mNumUVComponents[ch] = 2

\* C28: when the parse ends, the line counter is the number of line ends between the
\* start of the input and the cursor: each line end crossed is counted once.
LineEndsCrossed == CountIn(1, m_szFile - 1, {"\n"})
C28_LineCounterCountsLineEnds ==
    (Ended /\ ub = "") => iLineNumber = LineEndsCrossed

\* C29: a keyword is dispatched only when the input at the cursor is its literal and the
\* character behind the literal is a space, a tab or a line end, so a keyword is never
\* taken for a shorter one that is a prefix of it: *MATERIAL_COUNT is not handled as
\* *MATERIAL, *MESH_VERTEX_LIST not as *MESH_VERTEX, *MESH_FACE_LIST not as *MESH_FACE,
\* *MESH_NUMVERTEX not as *MESH.
AtDispatch ==
    /\ Running
    /\ Top.fn \in DOMAIN DispatchTableOf
    /\ Top.pc = "head"
    /\ Matched(DispatchTableOf[Top.fn]) # 0
DispatchedKeyword == Lit[DispatchTableOf[Top.fn][Matched(DispatchTableOf[Top.fn])].kw]
C29_KeywordIsMatchedExactly ==
    /\ AtDispatch
          => /\ \A i \in 1..Len(DispatchedKeyword) : C(m_szFile + i - 1) = DispatchedKeyword[i]
             /\ C(m_szFile + Len(DispatchedKeyword)) \in SpaceChars \cup LineEndChars
    /\ input = PrefixFileOf["*MESH"]
          => /\ \A i \in 1..Len(stack) : stack[i].fn # "ParseLV2MeshBlock"
             /\ Ended => (status = "done" /\ m_vMeshes = <<DefaultMesh>>)
    /\ input = PrefixFileOf["*MATERIAL"]
          => /\ \A i \in 1..Len(stack) : stack[i].fn # "ParseLV2MaterialBlock"
             /\ Ended => (status = "done" /\ m_vMaterials = <<DefaultMaterial>>
                          /\ warnings = <<>>)
    /\ (input = PrefixFileOf["*MESH_VERTEX"] /\ Ended)
          => (m_vMeshes[1].mPositions = <<Vec0>> /\ warnings = <<>>)
    /\ (input = PrefixFileOf["*MESH_FACE"] /\ Ended)
          => (m_vMeshes[1].mFaces = <<DefaultFace>> /\ warnings = <<>>)

\* the geometry object block stands before *MESH_NUMVERTEX and does not dispatch it
C29_Witness ==
    /\ input = PrefixFileOf["*MESH"]
    /\ Running
    /\ Top.fn = "ParseLV1GeometryObjectBlock"
    /\ Top.pc = "head"
    /\ \A i \in 1..Len(Lit["*MESH_NUMVERTEX"]) : C(m_szFile + i - 1) = Lit["*MESH_NUMVERTEX"][i]
    /\ Matched(GeometryObjectTable) = 0

\* C30: for every text that ends in the terminating zero, Parse finishes, by returning
\* or by one fatal error: the cursor never moves backwards and every step of a loop
\* returns or moves the cursor towards the terminator. So the cursor never stands
\* behind the terminator, and a run ends as "done" or as "fatal" and in no other way.
C30_ParseEndsAtTheTerminator ==
    /\ m_szFile <= Len(input)
    /\ status \in {"running", "done", "fatal"}

\* the cursor never moves backwards
CursorNeverMovesBack == [][m_szFile' >= m_szFile]_vars

\* C31: an entry of a vertex, UV-vertex, vertex-colour, face, UV-face or colour-face list
\* that is dropped because its index is out of range leaves every field of every mesh as
\* it was, the UV component count of the channel included: the step that logs the
\* warning changes no mesh.
DroppedEntryWarnings ==
    { k \in 1..Len(warnings) :
        warnings[k].msg \in { "Vertex has an invalid index", "Tvertex has an invalid index",
                              "Vertex color has an invalid index",
                              "Face has an invalid index",
                              "UV-Face has an invalid index" } }
C31_DroppedEntryLeavesMeshUnchanged ==
    [][Cardinality(DroppedEntryWarnings') > Cardinality(DroppedEntryWarnings)
          => m_vMeshes' = m_vMeshes]_vars

\* C32: an entry keyword of a vertex, UV-vertex or vertex-colour list with no index and
\* no value on its line overwrites no slot stored earlier: slot 0 keeps the value of the
\* valid entry of index 0 before it.
C32_BareEntryKeepsStoredSlots ==
    \A c \in BareEntryCases :
        (input = BareEntryFileOf[c] /\ Ended)
            => ListArray(c[1], m_vMeshes[1]) = <<(<<1, 2, 3>>)>>

====
